---- MODULE Spec2Model ----
(***************************************************************************)
(* A model of the JSON structural operations of the json-formatter tool    *)
(* (src/python/json-formatter/tools/json_tools.py): merge_json with        *)
(* _deep_merge, extract_json_path, and compare_json with _compare_values,  *)
(* over parsed JSON documents; of the tools of its server                  *)
(* (src/python/json-formatter/server.py) that call them; of                *)
(* generate_password (src/python/password-generator); and of the habit     *)
(* tracker (src/python/habit-tracker/server.py).  A behaviour of the first *)
(* four is one call: the arguments are chosen in the initial state and the *)
(* action runs the function body to its return or raise.  A behaviour of   *)
(* the habit tracker is a sequence of tool calls on one stored state.      *)
(*                                                                         *)
(* A parsed document is a Python object tree.  Dicts and lists are mutable *)
(* objects with identity, so they live in an object store (heap) and are   *)
(* referred to by address; None, bool, int, float and str are immutable    *)
(* and are held inline.  A Python str is a sequence of one-character       *)
(* strings, so that indexing, splitting and prefix tests are computed.     *)
(***************************************************************************)
EXTENDS Integers, Sequences, FiniteSets, TLC

VARIABLES
    op,          \* the function or tool called, by its name in the source
    pc,          \* "call": arguments bound, body not yet run; "done": returned or raised
    heap,        \* the object store: a sequence of dict and list cells, address = index
    baseVal,     \* _deep_merge: the value of dict1 when the call starts
    overlayVal,  \* _deep_merge: the value of dict2 when the call starts
    base,        \* _deep_merge: the reference dict1
    overlay,     \* _deep_merge: the reference dict2
    docs,        \* merge_json: json_objects, a sequence of document texts
    deep,        \* merge_json: the deep_merge flag
    parsed,      \* merge_json: parsed_objects, references to the parsed dicts
    doc,         \* extract_json_path: json_string
    path,        \* extract_json_path: path, a sequence of characters
    selectors,   \* extract_json_path: the path segments the caller wrote as path
    json1,       \* compare_json and the tools: the first (or only) text argument
    json2,       \* compare_json and the tools: the second text argument
    ignore_order,       \* compare_json: the ignore_order flag
    hashOrder,          \* compare_json: the order in which this process iterates a set of keys
    length,             \* generate_password: length
    include_uppercase,  \* generate_password: include_uppercase
    include_lowercase,  \* generate_password: include_lowercase
    include_numbers,    \* generate_password: include_numbers
    include_symbols,    \* generate_password: include_symbols
    exclude_ambiguous,  \* generate_password: exclude_ambiguous
    entropy,            \* generate_password: the numbers the secrets module draws
    habits,             \* habit tracker: tracker.habits
    completions,        \* habit tracker: tracker.completions
    file,               \* habit tracker: the data file, as save_data last wrote it
    today,              \* habit tracker: the day datetime.now() falls on
    habit_id,           \* habit tracker: the habit_id of the last call
    date,               \* habit tracker: the date of the last call
    resultRef,   \* the reference returned by a merge (NoSlot when none)
    ret          \* the outcome: the returned value, or the exception raised

compareVars == <<json1, json2, ignore_order, hashOrder>>
passwordVars == <<length, include_uppercase, include_lowercase, include_numbers,
                  include_symbols, exclude_ambiguous, entropy>>
habitVars == <<habits, completions, file, today, habit_id, date>>
vars == <<op, pc, heap, baseVal, overlayVal, base, overlay, docs, deep, parsed,
          doc, path, selectors, compareVars, passwordVars, habitVars, resultRef, ret>>

(***************************************************************************)
(* Bounds of the model.                                                    *)
(***************************************************************************)
MaxDepth == 2      \* nesting levels added on top of a flat object
MaxDocs == 3       \* longest json_objects sequence given to merge_json
MaxSegs == 2       \* most '.'-separated segments of a path

(***************************************************************************)
(* Values.  A value is a record of one shape for every Python type; k is   *)
(* the Python type name, n the payload of a bool/int/float, s the          *)
(* characters of a str, items the elements of a list, fields the mapping   *)
(* of a dict (its keys are strs, so sequences of characters).              *)
(***************************************************************************)
Prim(k, n) == [k |-> k, n |-> n, s |-> <<>>, items |-> <<>>, fields |-> <<>>]
None == Prim("NoneType", 0)
Bool(b) == Prim("bool", IF b THEN 1 ELSE 0)
Num(n) == Prim("int", n)
Str(s) == [k |-> "str", n |-> 0, s |-> s, items |-> <<>>, fields |-> <<>>]
List(xs) == [k |-> "list", n |-> 0, s |-> <<>>, items |-> xs, fields |-> <<>>]
Dict(f) == [k |-> "dict", n |-> 0, s |-> <<>>, items |-> <<>>, fields |-> f]
EmptyDict == Dict(<<>>)
NoValue == Prim("<no value>", 0)

IsDict(v) == v.k = "dict"
IsList(v) == v.k = "list"

\* A slot of a dict or list cell, or a local variable: an immutable value
\* inline, or the address of a dict or list cell.
Inline(v) == [k |-> v.k, n |-> v.n, s |-> v.s, ref |-> 0]
Ref(k, a) == [k |-> k, n |-> 0, s |-> <<>>, ref |-> a]
NoSlot == [k |-> "<no value>", n |-> 0, s |-> <<>>, ref |-> 0]

\* The order in which the keys of a dict are visited.  Python visits them in
\* insertion order; the loops modelled here touch one key per iteration, so
\* the order changes only the addresses of the cells allocated, and one fixed
\* order stands for all.
RECURSIVE KeySeq(_)
KeySeq(S) ==
    IF S = {} THEN <<>>
    ELSE LET key == CHOOSE kk \in S : TRUE IN <<key>> \o KeySeq(S \ {key})
IndexOf(ks, key) == CHOOSE i \in 1..Len(ks) : ks[i] = key

(***************************************************************************)
(* Object construction (what json.loads does with the tree it has parsed)  *)
(* and the value a reference denotes.                                      *)
(***************************************************************************)
RECURSIVE Alloc(_, _), AllocAll(_, _)
AllocAll(h, vs) ==
    IF vs = <<>> THEN [heap |-> h, slots |-> <<>>]
    ELSE LET first == Alloc(h, Head(vs))
             rest == AllocAll(first.heap, Tail(vs))
         IN  [heap |-> rest.heap, slots |-> <<first.slot>> \o rest.slots]

Alloc(h, v) ==
    IF IsDict(v) THEN
        LET ks == KeySeq(DOMAIN v.fields)
            kids == AllocAll(h, [i \in 1..Len(ks) |-> v.fields[ks[i]]])
            cell == [k |-> "dict", items |-> <<>>,
                     fields |-> [key \in DOMAIN v.fields |-> kids.slots[IndexOf(ks, key)]]]
        IN  [heap |-> Append(kids.heap, cell), slot |-> Ref("dict", Len(kids.heap) + 1)]
    ELSE IF IsList(v) THEN
        LET kids == AllocAll(h, v.items)
            cell == [k |-> "list", items |-> kids.slots, fields |-> <<>>]
        IN  [heap |-> Append(kids.heap, cell), slot |-> Ref("list", Len(kids.heap) + 1)]
    ELSE [heap |-> h, slot |-> Inline(v)]

RECURSIVE Deref(_, _)
Deref(h, slot) ==
    IF slot.k = "dict" THEN
        Dict([key \in DOMAIN h[slot.ref].fields |-> Deref(h, h[slot.ref].fields[key])])
    ELSE IF slot.k = "list" THEN
        List([i \in 1..Len(h[slot.ref].items) |-> Deref(h, h[slot.ref].items[i])])
    ELSE [k |-> slot.k, n |-> slot.n, s |-> slot.s, items |-> <<>>, fields |-> <<>>]

(***************************************************************************)
(* Outcomes of a call: a returned value, or an exception with the kind of  *)
(* its message.                                                            *)
(***************************************************************************)
Return(v) == [exc |-> "", msg |-> "", arg |-> <<>>, val |-> v]
Raise(e, m) == [exc |-> e, msg |-> m, arg |-> <<>>, val |-> NoValue]
RaiseAbout(e, m, a) == [exc |-> e, msg |-> m, arg |-> a, val |-> NoValue]
NoOutcome == [exc |-> "<pending>", msg |-> "", arg |-> <<>>, val |-> NoValue]
Returned(r) == r.exc = ""
Raised(r) == r.exc \notin {"", "<pending>"}

(***************************************************************************)
(* Document texts.  json.loads is the standard library's: a text is        *)
(* represented by what json.loads makes of it, either a JSONDecodeError    *)
(* or the parsed tree.                                                     *)
(***************************************************************************)
Text(v) == [wellformed |-> TRUE, tree |-> v]
Malformed == [wellformed |-> FALSE, tree |-> NoValue]
json_loads(text) ==
    IF text.wellformed THEN Return(text.tree) ELSE Raise("JSONDecodeError", "")

\* The arguments of the other operations while one operation is called.
NoCompare ==
    json1 = Malformed /\ json2 = Malformed /\ ignore_order = FALSE /\ hashOrder = <<>>
NoPassword ==
    /\ length = 0
    /\ include_uppercase = FALSE /\ include_lowercase = FALSE
    /\ include_numbers = FALSE /\ include_symbols = FALSE
    /\ exclude_ambiguous = FALSE
    /\ entropy = <<>>
NoFile == [exists |-> FALSE, habits |-> <<>>, completions |-> <<>>]
NoHabits ==
    /\ habits = <<>> /\ completions = <<>> /\ file = NoFile
    /\ today = <<>> /\ habit_id = <<>> /\ date = None
NoMerge ==
    /\ heap = <<>>
    /\ baseVal = NoValue /\ overlayVal = NoValue
    /\ base = NoSlot /\ overlay = NoSlot
    /\ docs = <<>> /\ deep = TRUE /\ parsed = <<>>
    /\ resultRef = NoSlot
NoExtract == doc = Malformed /\ path = <<>> /\ selectors = <<>>
mergeVars == <<heap, baseVal, overlayVal, base, overlay, docs, deep, parsed, resultRef>>
extractVars == <<doc, path, selectors>>

(***************************************************************************)
(* _deep_merge(dict1, dict2)                                               *)
(***************************************************************************)
\* dict1.copy(): a new dict cell holding the same slots.  (Variants: no copy,
\* result is dict1 itself; and a new empty dict.)
dict_copy_alias(h, d) == [heap |-> h, slot |-> d]
dict_copy_empty(h, d) ==
    [heap |-> Append(h, [k |-> "dict", items |-> <<>>, fields |-> <<>>]),
     slot |-> Ref("dict", Len(h) + 1)]
dict_copy(h, d) == [heap |-> Append(h, h[d.ref]), slot |-> Ref("dict", Len(h) + 1)]

\* d[key] = slot
setitem(h, d, key, slot) ==
    [h EXCEPT ![d.ref].fields =
        [kk \in DOMAIN @ \cup {key} |-> IF kk = key THEN slot ELSE @[kk]]]

\* key in result and isinstance(result[key], dict) and isinstance(value, dict)
\* (Variant: never recurse.)
recurse_never(h, result, key, value) == FALSE
recurse_here(h, result, key, value) ==
    /\ key \in DOMAIN h[result.ref].fields
    /\ h[result.ref].fields[key].k = "dict"
    /\ value.k = "dict"

\* the else branch: result[key] = value  (Variant: an existing key keeps its
\* value.)
store_keep_base(h, result, key, value) ==
    IF key \in DOMAIN h[result.ref].fields THEN h ELSE setitem(h, result, key, value)
store_overlay(h, result, key, value) == setitem(h, result, key, value)

RECURSIVE _deep_merge(_, _, _), merge_items(_, _, _, _)
\* for key, value in dict2.items(): ...
merge_items(h, result, dict2, ks) ==
    IF ks = <<>> THEN h
    ELSE LET key == Head(ks)
             value == h[dict2.ref].fields[key]
         IN  IF recurse_here(h, result, key, value)
             THEN LET sub == _deep_merge(h, h[result.ref].fields[key], value)
                  IN  merge_items(setitem(sub.heap, result, key, sub.slot),
                                  result, dict2, Tail(ks))
             ELSE merge_items(store_overlay(h, result, key, value),
                              result, dict2, Tail(ks))

_deep_merge(h, dict1, dict2) ==
    LET copy == dict_copy(h, dict1)
        result == copy.slot
    IN  [heap |-> merge_items(copy.heap, result, dict2,
                              KeySeq(DOMAIN copy.heap[dict2.ref].fields)),
         slot |-> result]

(***************************************************************************)
(* Inputs of _deep_merge: objects over Keys, nested up to MaxDepth levels. *)
(***************************************************************************)
Keys == {<<"a">>, <<"b">>}
Leaves == {Num(1), List(<<Num(1), Num(2)>>), List(<<Num(3)>>)}
ObjectsOver(V) == UNION {{Dict(f) : f \in [S -> V]} : S \in SUBSET Keys}

RECURSIVE Objects(_)
Objects(d) ==
    IF d = 0 THEN ObjectsOver(Leaves)
    ELSE LET inner == Objects(d - 1)
         IN  inner \cup {Dict(<<"a">> :> o) : o \in inner}
                   \cup {Dict((<<"a">> :> o) @@ (<<"b">> :> Num(1))) : o \in inner}

(***************************************************************************)
(* The call _deep_merge(base, overlay) on two freshly parsed objects.      *)
(***************************************************************************)
InitDeepMerge ==
    /\ op = "_deep_merge"
    /\ pc = "call"
    /\ baseVal \in Objects(MaxDepth)
    /\ overlayVal \in Objects(MaxDepth)
    /\ LET b == Alloc(<<>>, baseVal)
           o == Alloc(b.heap, overlayVal)
       IN  heap = o.heap /\ base = b.slot /\ overlay = o.slot
    /\ docs = <<>> /\ deep = TRUE /\ parsed = <<>>
    /\ doc = Malformed /\ path = <<>> /\ selectors = <<>>
    /\ NoCompare /\ NoPassword /\ NoHabits
    /\ resultRef = NoSlot
    /\ ret = NoOutcome

DeepMerge ==
    /\ op = "_deep_merge" /\ pc = "call"
    /\ LET r == _deep_merge(heap, base, overlay)
       IN  /\ heap' = r.heap
           /\ resultRef' = r.slot
           /\ ret' = Return(Deref(r.heap, r.slot))
    /\ pc' = "done"
    /\ UNCHANGED <<op, baseVal, overlayVal, base, overlay, docs, deep, parsed,
                   doc, path, selectors, compareVars, passwordVars, habitVars>>

(***************************************************************************)
(* merge_json(json_objects, deep_merge)                                    *)
(***************************************************************************)
\* The parse loop: json.loads each text, require a dict, collect.  (Variant:
\* a malformed or non-dict document is skipped.)
RECURSIVE parse_objects_skip(_, _, _)
parse_objects_skip(h, texts, acc) ==
    IF texts = <<>> THEN [heap |-> h, objs |-> acc, out |-> NoOutcome]
    ELSE LET data == json_loads(Head(texts))
         IN  IF Raised(data) \/ ~IsDict(data.val)
             THEN parse_objects_skip(h, Tail(texts), acc)
             ELSE LET a == Alloc(h, data.val)
                  IN  parse_objects_skip(a.heap, Tail(texts), Append(acc, a.slot))

RECURSIVE parse_objects(_, _, _)
parse_objects(h, texts, acc) ==
    IF texts = <<>> THEN [heap |-> h, objs |-> acc, out |-> NoOutcome]
    ELSE LET data == json_loads(Head(texts))
         IN  IF Raised(data)
             THEN [heap |-> h, objs |-> acc,
                   out |-> Raise("ValueError", "Invalid JSON in object")]
             ELSE LET a == Alloc(h, data.val)
                  IN  IF ~IsDict(data.val)
                      THEN [heap |-> a.heap, objs |-> acc,
                            out |-> Raise("ValueError", "is not a JSON object")]
                      ELSE parse_objects(a.heap, Tail(texts), Append(acc, a.slot))

\* result.update(obj)
RECURSIVE dict_update(_, _, _, _)
dict_update(h, result, obj, ks) ==
    IF ks = <<>> THEN h
    ELSE dict_update(setitem(h, result, Head(ks), h[obj.ref].fields[Head(ks)]),
                     result, obj, Tail(ks))

\* The merge loop: for obj in parsed_objects: ...  (Variant: the arguments of
\* _deep_merge swapped, so earlier documents take precedence.)
RECURSIVE merge_objects_first_wins(_, _, _, _)
merge_objects_first_wins(h, result, objs, deep_merge) ==
    IF objs = <<>> THEN [heap |-> h, slot |-> result]
    ELSE LET r == _deep_merge(h, Head(objs), result)
         IN  merge_objects_first_wins(r.heap, r.slot, Tail(objs), deep_merge)

RECURSIVE merge_objects(_, _, _, _)
merge_objects(h, result, objs, deep_merge) ==
    IF objs = <<>> THEN [heap |-> h, slot |-> result]
    ELSE IF deep_merge
         THEN LET r == _deep_merge(h, result, Head(objs))
              IN  merge_objects(r.heap, r.slot, Tail(objs), deep_merge)
         ELSE LET obj == Head(objs)
              IN  merge_objects(dict_update(h, result, obj, KeySeq(DOMAIN h[obj.ref].fields)),
                                result, Tail(objs), deep_merge)

merge_json(h, json_objects, deep_merge) ==
    LET p == parse_objects(h, json_objects, <<>>)
        empty == Alloc(p.heap, EmptyDict)
        m == merge_objects(empty.heap, empty.slot, p.objs, deep_merge)
    IN  IF json_objects = <<>>
        THEN LET e == Alloc(h, EmptyDict)
             IN  [heap |-> e.heap, objs |-> <<>>, slot |-> e.slot, out |-> Return(EmptyDict)]
        ELSE IF Raised(p.out)
        THEN [heap |-> p.heap, objs |-> p.objs, slot |-> NoSlot, out |-> p.out]
        ELSE [heap |-> m.heap, objs |-> p.objs, slot |-> m.slot,
              out |-> Return(Deref(m.heap, m.slot))]

(***************************************************************************)
(* Inputs of merge_json: up to MaxDocs texts, each malformed, a non-object *)
(* or an object with nested objects.                                       *)
(***************************************************************************)
DocValues == {Num(1), Dict(<<"x">> :> Num(1)), Dict(<<"y">> :> Num(2))}
DocObjects ==
    {EmptyDict, Dict(<<"b">> :> Num(2)),
     Dict((<<"a">> :> Num(1)) @@ (<<"b">> :> Dict(<<"x">> :> Num(1))))}
        \cup {Dict(<<"a">> :> v) : v \in DocValues}
DocTexts == {Malformed, Text(List(<<Num(1)>>))} \cup {Text(o) : o \in DocObjects}

InitMergeJson ==
    /\ op = "merge_json"
    /\ pc = "call"
    /\ docs \in UNION {[1..n -> DocTexts] : n \in 0..MaxDocs}
    /\ deep \in BOOLEAN
    /\ heap = <<>>
    /\ baseVal = NoValue /\ overlayVal = NoValue
    /\ base = NoSlot /\ overlay = NoSlot
    /\ parsed = <<>>
    /\ doc = Malformed /\ path = <<>> /\ selectors = <<>>
    /\ NoCompare /\ NoPassword /\ NoHabits
    /\ resultRef = NoSlot
    /\ ret = NoOutcome

MergeJson ==
    /\ op = "merge_json" /\ pc = "call"
    /\ LET r == merge_json(heap, docs, deep)
       IN  /\ heap' = r.heap
           /\ parsed' = r.objs
           /\ resultRef' = r.slot
           /\ ret' = r.out
    /\ pc' = "done"
    /\ UNCHANGED <<op, baseVal, overlayVal, base, overlay, docs, deep, doc, path, selectors,
                   compareVars, passwordVars, habitVars>>

InitMerge == InitDeepMerge \/ InitMergeJson
NextMerge == DeepMerge \/ MergeJson
SpecMerge == InitMerge /\ [][NextMerge]_vars

(***************************************************************************)
(* Properties of deep merge.                                               *)
(*                                                                         *)
(* MergeOf is the merge of section 4.1 of the specification, stated on     *)
(* values; the properties compare what the code returns with it.           *)
(***************************************************************************)
RECURSIVE MergeOf(_, _)
MergeOf(b, o) ==
    Dict([key \in DOMAIN b.fields \cup DOMAIN o.fields |->
            IF key \notin DOMAIN o.fields THEN b.fields[key]
            ELSE IF key \notin DOMAIN b.fields THEN o.fields[key]
            ELSE IF IsDict(b.fields[key]) /\ IsDict(o.fields[key])
                 THEN MergeOf(b.fields[key], o.fields[key])
                 ELSE o.fields[key]])

RECURSIVE FoldMerge(_, _)
FoldMerge(acc, objs) ==
    IF objs = <<>> THEN acc ELSE FoldMerge(MergeOf(acc, Head(objs)), Tail(objs))

\* The value found in v by following the keys of p, NoValue when there is none.
RECURSIVE At(_, _)
At(v, p) ==
    IF p = <<>> THEN v
    ELSE IF IsDict(v) /\ Head(p) \in DOMAIN v.fields THEN At(v.fields[Head(p)], Tail(p))
    ELSE NoValue

KeyPaths == UNION {[1..n -> Keys] : n \in 0..(MaxDepth + 1)}
\* p is a nesting level the merge of b and o recurses into: both sides hold an
\* object at p and at every prefix of p.
MergedLevel(b, o, p) ==
    \A n \in 0..Len(p) : IsDict(At(b, SubSeq(p, 1, n))) /\ IsDict(At(o, SubSeq(p, 1, n)))

DeepMergeDone == op = "_deep_merge" /\ pc = "done"
MergeJsonDone == op = "merge_json" /\ pc = "done"
SharedKeys == DOMAIN baseVal.fields \cap DOMAIN overlayVal.fields
BothObjects(key) == IsDict(baseVal.fields[key]) /\ IsDict(overlayVal.fields[key])

\* C1: deep merge is right-biased: a key present in base and in overlay whose
\* two values are not both objects is mapped by merge(base, overlay) to
\* overlay's value.
C1_RightBiased ==
    DeepMergeDone =>
        /\ Returned(ret)
        /\ \A key \in SharedKeys :
              ~BothObjects(key) =>
                  /\ key \in DOMAIN ret.val.fields
                  /\ ret.val.fields[key] = overlayVal.fields[key]

\* A merge where a shared key holds different non-object values on the two sides.
C1_Witness ==
    /\ DeepMergeDone
    /\ \E key \in SharedKeys :
          /\ ~BothObjects(key)
          /\ baseVal.fields[key] # overlayVal.fields[key]
          /\ ret.val.fields[key] = overlayVal.fields[key]

\* C2: deep merge recurses only into pairs of objects: for a key present in
\* both inputs the result holds the deep merge of the two values when both are
\* objects, and exactly overlay's value when either is an array or a primitive
\* (arrays are replaced, never concatenated or merged element-wise).  Stated
\* for the call and for every recursive call it makes.
C2_RecursesOnlyIntoObjects ==
    DeepMergeDone =>
        \A p \in KeyPaths :
            MergedLevel(baseVal, overlayVal, p) =>
                LET b == At(baseVal, p).fields
                    o == At(overlayVal, p).fields
                    r == At(ret.val, p)
                IN  \A key \in DOMAIN b \cap DOMAIN o :
                        /\ IsDict(r) /\ key \in DOMAIN r.fields
                        /\ r.fields[key] =
                              IF IsDict(b[key]) /\ IsDict(o[key])
                              THEN MergeOf(b[key], o[key])
                              ELSE o[key]

\* A merge that combined two objects under a shared key of the arguments (the
\* result there is neither side's value) and, in the same call, replaced an
\* array by a different array.
C2_Witness ==
    /\ DeepMergeDone
    /\ \E key \in SharedKeys :
          /\ BothObjects(key)
          /\ ret.val.fields[key] # baseVal.fields[key]
          /\ ret.val.fields[key] # overlayVal.fields[key]
    /\ \E p \in KeyPaths :
          /\ MergedLevel(baseVal, overlayVal, p)
          /\ \E key \in DOMAIN At(baseVal, p).fields \cap DOMAIN At(overlayVal, p).fields :
                /\ IsList(At(baseVal, p).fields[key])
                /\ IsList(At(overlayVal, p).fields[key])
                /\ At(baseVal, p).fields[key] # At(overlayVal, p).fields[key]
                /\ At(ret.val, p).fields[key] = At(overlayVal, p).fields[key]

\* C3: at every nesting level where both sides are objects, the key set of
\* merge(base, overlay) is the union of the key sets of base and overlay; a key
\* only in base keeps base's value, a key only in overlay takes overlay's.
C3_KeyUnion ==
    DeepMergeDone =>
        \A p \in KeyPaths :
            MergedLevel(baseVal, overlayVal, p) =>
                LET b == At(baseVal, p).fields
                    o == At(overlayVal, p).fields
                    r == At(ret.val, p)
                IN  /\ IsDict(r)
                    /\ DOMAIN r.fields = DOMAIN b \cup DOMAIN o
                    /\ \A key \in DOMAIN b \ DOMAIN o : r.fields[key] = b[key]
                    /\ \A key \in DOMAIN o \ DOMAIN b : r.fields[key] = o[key]

\* A merge with a nested level (below the root) where one key is only in base
\* and another only in overlay.
C3_Witness ==
    /\ DeepMergeDone
    /\ \E p \in KeyPaths :
          /\ Len(p) >= 1
          /\ MergedLevel(baseVal, overlayVal, p)
          /\ DOMAIN At(baseVal, p).fields \ DOMAIN At(overlayVal, p).fields # {}
          /\ DOMAIN At(overlayVal, p).fields \ DOMAIN At(baseVal, p).fields # {}
          /\ DOMAIN At(ret.val, p).fields = Keys

\* The objects merge_json parsed, as values, in document order.
DocsAreObjects == \A i \in 1..Len(docs) : docs[i].wellformed /\ IsDict(docs[i].tree)
DocTrees == [i \in 1..Len(docs) |-> docs[i].tree]

\* C4: merge of a sequence of object documents is the left fold of the binary
\* deep merge over the sequence in document order, starting from the empty
\* object; the empty sequence yields {} and later documents take precedence.
C4_LeftFold ==
    (MergeJsonDone /\ deep /\ DocsAreObjects) =>
        /\ Returned(ret)
        /\ ret.val = FoldMerge(EmptyDict, DocTrees)

\* A merge of three objects where the last document overrides a value that the
\* first two give.
C4_Witness ==
    /\ MergeJsonDone /\ deep /\ DocsAreObjects
    /\ Len(docs) = 3
    /\ \E key \in Keys :
          /\ \A i \in 1..3 : key \in DOMAIN docs[i].tree.fields
          /\ docs[1].tree.fields[key] # docs[3].tree.fields[key]
          /\ docs[2].tree.fields[key] # docs[3].tree.fields[key]
          /\ ~IsDict(docs[3].tree.fields[key])
          /\ ret.val.fields[key] = docs[3].tree.fields[key]

\* C5: merge is all-or-nothing on bad input: when any document, at any
\* position, is unparsable or parses to a non-object, merge fails with an
\* input error (ValueError) and returns no merged value.
C5_AllOrNothing ==
    (MergeJsonDone /\ ~DocsAreObjects) =>
        /\ ret.exc = "ValueError"
        /\ ret.val = NoValue
        /\ resultRef = NoSlot

\* A failed merge whose first two documents were valid objects and whose third
\* is not.
C5_Witness ==
    /\ MergeJsonDone
    /\ Len(docs) = 3
    /\ \A i \in 1..2 : docs[i].wellformed /\ IsDict(docs[i].tree)
                       /\ docs[i].tree # EmptyDict
    /\ ~(docs[3].wellformed /\ IsDict(docs[3].tree))
    /\ Raised(ret)

\* C6: deep merge never mutates its inputs: after merge(base, overlay) returns,
\* base and overlay (with every nested object reachable from them) have the
\* value they had before the call; likewise every object merge_json parsed.
C6_InputsNotMutated ==
    /\ DeepMergeDone =>
          /\ Deref(heap, base) = baseVal
          /\ Deref(heap, overlay) = overlayVal
    /\ (MergeJsonDone /\ DocsAreObjects) =>
          /\ Len(parsed) = Len(docs)
          /\ \A i \in 1..Len(docs) : Deref(heap, parsed[i]) = docs[i].tree

\* A merge that changed something two levels down: the result differs from
\* base below a key path of length 2 along which both sides are objects.
C6_Witness ==
    /\ DeepMergeDone
    /\ \E p \in KeyPaths :
          /\ Len(p) = 2
          /\ MergedLevel(baseVal, overlayVal, p)
          /\ At(ret.val, p) # At(baseVal, p)
          /\ At(ret.val, p) # At(overlayVal, p)

(***************************************************************************)
(* The str operations extract_json_path uses.                              *)
(***************************************************************************)
\* s.startswith(prefix)
startswith(s, prefix) ==
    Len(s) >= Len(prefix) /\ SubSeq(s, 1, Len(prefix)) = prefix

\* c in s
contains(s, c) == \E i \in 1..Len(s) : s[i] = c

\* s.split(c), c one character: the pieces between the occurrences of c.
RECURSIVE split(_, _)
split(s, c) ==
    IF ~contains(s, c) THEN <<s>>
    ELSE LET i == CHOOSE j \in 1..Len(s) : s[j] = c /\ \A m \in 1..(j - 1) : s[m] # c
         IN  <<SubSeq(s, 1, i - 1)>> \o split(SubSeq(s, i + 1, Len(s)), c)

\* s.rstrip(c): s without its trailing occurrences of c.
RECURSIVE rstrip(_, _)
rstrip(s, c) ==
    IF s # <<>> /\ s[Len(s)] = c THEN rstrip(SubSeq(s, 1, Len(s) - 1), c) ELSE s

Digits == <<"0", "1", "2", "3", "4", "5", "6", "7", "8", "9">>
IsDigit(c) == \E d \in 1..Len(Digits) : Digits[d] = c
DigitValue(c) == (CHOOSE d \in 1..Len(Digits) : Digits[d] = c) - 1

RECURSIVE DecimalValue(_)
DecimalValue(s) ==
    IF s = <<>> THEN 0
    ELSE 10 * DecimalValue(SubSeq(s, 1, Len(s) - 1)) + DigitValue(s[Len(s)])

\* int(s) for a text of sign and digit characters: an optional sign and at
\* least one digit, anything else a ValueError.
int(s) ==
    LET signed == s # <<>> /\ s[1] \in {"-", "+"}
        digits == IF signed THEN Tail(s) ELSE s
    IN  IF digits = <<>> \/ \E i \in 1..Len(digits) : ~IsDigit(digits[i])
        THEN Raise("ValueError", "invalid literal for int()")
        ELSE Return(Num(IF signed /\ s[1] = "-"
                        THEN 0 - DecimalValue(digits) ELSE DecimalValue(digits)))

(***************************************************************************)
(* Subscription and dict.get on a value.                                   *)
(***************************************************************************)
\* current[key], key a str
getitem_key(current, key) ==
    IF IsDict(current) THEN
        IF key \in DOMAIN current.fields THEN Return(current.fields[key])
        ELSE RaiseAbout("KeyError", "", key)
    ELSE Raise("TypeError", "")

\* current[index], index an int: lists and strs count negative indices from
\* the end; a dict parsed from JSON has only str keys, so no int is a key.
getitem_index(current, index) ==
    LET n == IF IsList(current) THEN Len(current.items) ELSE Len(current.s)
        i == IF index < 0 THEN index + n ELSE index
    IN  IF IsList(current) THEN
            IF 0 <= i /\ i < n THEN Return(current.items[i + 1])
            ELSE Raise("IndexError", "")
        ELSE IF current.k = "str" THEN
            IF 0 <= i /\ i < n THEN Return(Str(<<current.s[i + 1]>>))
            ELSE Raise("IndexError", "")
        ELSE IF IsDict(current) THEN Raise("KeyError", "")
        ELSE Raise("TypeError", "")

\* current.get(part)
dict_get(current, part) ==
    IF part \in DOMAIN current.fields THEN current.fields[part] ELSE None

(***************************************************************************)
(* extract_json_path(json_string, path)                                    *)
(***************************************************************************)
\* if path.startswith('$.'): path = path[2:]  (Variant: nothing is stripped.)
strip_prefix_none(p) == p
strip_prefix(p) == IF startswith(p, <<"$", ".">>) THEN SubSeq(p, 3, Len(p)) ELSE p

\* The bracketed branch of the loop body: key, index_str = part.split('[') ...
index_part(current, part) ==
    LET pieces == split(part, "[")
        key == pieces[1]
        index == int(rstrip(pieces[2], "]"))
        keyed == IF key # <<>> THEN getitem_key(current, key) ELSE Return(current)
    IN  IF Len(pieces) # 2 THEN Raise("ValueError", "too many values to unpack")
        ELSE IF Raised(index) THEN index
        ELSE IF Raised(keyed) THEN keyed
        ELSE getitem_index(keyed.val, index.val.n)

\* The plain branch of the loop body.
field_part(current, part) ==
    IF IsDict(current) THEN Return(dict_get(current, part))
    ELSE RaiseAbout("ValueError", "Cannot access on non-object", part)

\* if current is None: raise ValueError(f"Path not found: {path}")
none_check(r, p) ==
    IF Returned(r) /\ r.val = None
    THEN RaiseAbout("ValueError", "Path not found", p)
    ELSE r

\* for part in parts: ...
RECURSIVE walk(_, _, _)
walk(current, parts, p) ==
    IF parts = <<>> THEN Return(current)
    ELSE LET part == Head(parts)
             r == none_check(IF contains(part, "[") /\ contains(part, "]")
                             THEN index_part(current, part)
                             ELSE field_part(current, part), p)
         IN  IF Raised(r) THEN r ELSE walk(r.val, Tail(parts), p)

extract_json_path(json_string, p) ==
    LET data == json_loads(json_string)
        stripped == strip_prefix(p)
    IN  IF Raised(data) THEN Raise("ValueError", "Invalid JSON")
        ELSE walk(data.val, split(stripped, "."), stripped)

(***************************************************************************)
(* Inputs of extract_json_path: a document nested up to MaxDepth levels    *)
(* and a path of up to MaxSegs segments, each a field name, a bracketed    *)
(* index or both, with or without the leading "$.".                        *)
(***************************************************************************)
ExtractLeaves == {None, Bool(FALSE), Num(0), Str(<<>>), Str(<<"x", "y">>)}

RECURSIVE ExtractValues(_)
ExtractValues(d) ==
    IF d = 0 THEN ExtractLeaves
    ELSE LET inner == ExtractValues(d - 1)
         IN  inner \cup {Dict(<<"a">> :> v) : v \in inner} \cup {List(<<v>>) : v \in inner}

ExtractDocs == {Malformed} \cup {Text(v) : v \in ExtractValues(MaxDepth)}

SegKeys == {<<>>, <<"a">>, <<"b">>}
SegIndexes == {0 - 1, 0, 1}
Segments ==
    {[key |-> key, indexed |-> FALSE, index |-> 0] : key \in SegKeys}
        \cup {[key |-> key, indexed |-> TRUE, index |-> i] : key \in SegKeys, i \in SegIndexes}

\* The text of a small int, of a segment and of a path.
IntText(i) == IF i < 0 THEN <<"-", Digits[1 - i]>> ELSE <<Digits[i + 1]>>
SegmentText(seg) ==
    seg.key \o (IF seg.indexed THEN <<"[">> \o IntText(seg.index) \o <<"]">> ELSE <<>>)
RECURSIVE PathText(_)
PathText(segs) ==
    IF Len(segs) = 1 THEN SegmentText(segs[1])
    ELSE SegmentText(Head(segs)) \o <<".">> \o PathText(Tail(segs))

InitExtract ==
    /\ op = "extract_json_path"
    /\ pc = "call"
    /\ doc \in ExtractDocs
    /\ selectors \in UNION {[1..n -> Segments] : n \in 1..MaxSegs}
    /\ path \in {PathText(selectors), <<"$", ".">> \o PathText(selectors)}
    /\ heap = <<>>
    /\ baseVal = NoValue /\ overlayVal = NoValue
    /\ base = NoSlot /\ overlay = NoSlot
    /\ docs = <<>> /\ deep = TRUE /\ parsed = <<>>
    /\ NoCompare /\ NoPassword /\ NoHabits
    /\ resultRef = NoSlot
    /\ ret = NoOutcome

Extract ==
    /\ op = "extract_json_path" /\ pc = "call"
    /\ ret' = extract_json_path(doc, path)
    /\ pc' = "done"
    /\ UNCHANGED <<op, heap, baseVal, overlayVal, base, overlay, docs, deep, parsed,
                   doc, path, selectors, compareVars, passwordVars, habitVars, resultRef>>

NextExtract == Extract
SpecExtract == InitExtract /\ [][NextExtract]_vars

(***************************************************************************)
(* Properties of path extraction.                                          *)
(*                                                                         *)
(* Selectors and Locate are the path of section 3 and the resolution of    *)
(* section 4.2 of the specification, stated on values: a segment selects a *)
(* field, an index, or a field and then an index; a field selector         *)
(* resolves on an object that has the key, an index selector on an array   *)
(* at a position 0..len-1.                                                 *)
(***************************************************************************)
FieldSel(name) == [field |-> TRUE, name |-> name, index |-> 0]
IndexSel(i) == [field |-> FALSE, name |-> <<>>, index |-> i]

RECURSIVE Selectors(_)
Selectors(segs) ==
    IF segs = <<>> THEN <<>>
    ELSE LET seg == Head(segs)
         IN  (IF ~seg.indexed THEN <<FieldSel(seg.key)>>
              ELSE IF seg.key # <<>> THEN <<FieldSel(seg.key), IndexSel(seg.index)>>
              ELSE <<IndexSel(seg.index)>>) \o Selectors(Tail(segs))

\* Where the selectors lead in v: "found" with the value there, "absent" when
\* a selector does not resolve (no such key, no such position), "mismatch"
\* when a selector is applied to a value of the wrong kind (given as val).
RECURSIVE Locate(_, _)
Locate(v, sels) ==
    IF sels = <<>> THEN [status |-> "found", val |-> v]
    ELSE LET sel == Head(sels)
         IN  IF sel.field THEN
                 IF ~IsDict(v) THEN [status |-> "mismatch", val |-> v]
                 ELSE IF sel.name \notin DOMAIN v.fields THEN [status |-> "absent", val |-> v]
                 ELSE Locate(v.fields[sel.name], Tail(sels))
             ELSE
                 IF ~IsList(v) THEN [status |-> "mismatch", val |-> v]
                 ELSE IF sel.index < 0 \/ sel.index >= Len(v.items)
                      THEN [status |-> "absent", val |-> v]
                 ELSE Locate(v.items[sel.index + 1], Tail(sels))

ExtractDone == op = "extract_json_path" /\ pc = "done"
Located == Locate(doc.tree, Selectors(selectors))
HasBracket == \E i \in 1..Len(selectors) : selectors[i].indexed
PathNotFound(r) == r.exc = "ValueError" /\ r.msg = "Path not found"
PathTypeMismatch(r) == r.exc = "ValueError" /\ r.msg = "Cannot access on non-object"

\* C7: for any document d and any path p that resolves in d, extract(d, p)
\* succeeds and returns exactly the value located at p in d, whatever kind of
\* value that is (null, false, 0, empty string, array or object included).
C7_ExtractReturnsLocatedValue ==
    (ExtractDone /\ doc.wellformed /\ Located.status = "found") =>
        ret = Return(Located.val)

\* C7 with the null case taken out: what the code does for every other value.
C7_ExtractReturnsLocatedNonNull ==
    (ExtractDone /\ doc.wellformed /\ Located.status = "found"
        /\ Located.val # None) =>
        ret = Return(Located.val)

\* C8: extract fails with the PathNotFound error whenever a selector on the
\* path does not resolve (a key absent from the current object, an index
\* outside the bounds of the current array), whether the selector is written
\* as a plain segment or as a bracketed segment.
C8_AbsentIsPathNotFound ==
    (ExtractDone /\ doc.wellformed /\ Located.status = "absent") =>
        PathNotFound(ret)

\* C8 for paths of plain segments only: what the code does there.
C8_AbsentPlainIsPathNotFound ==
    (ExtractDone /\ doc.wellformed /\ Located.status = "absent" /\ ~HasBracket) =>
        PathNotFound(ret)

\* C9: extract fails with the path type-mismatch error, and never returns a
\* value, when a field selector is applied to a non-object or an index
\* selector to a non-array; a null met before the end of the path is likewise
\* a terminal failure.
C9_MismatchIsTypeMismatch ==
    (ExtractDone /\ doc.wellformed /\ Located.status = "mismatch") =>
        /\ Raised(ret)
        /\ Located.val # None => PathTypeMismatch(ret)

\* C9 for paths of plain segments only: what the code does there.
C9_MismatchPlainIsTypeMismatch ==
    (ExtractDone /\ doc.wellformed /\ Located.status = "mismatch" /\ ~HasBracket) =>
        /\ Raised(ret)
        /\ Located.val # None => PathTypeMismatch(ret)

DollarDot == <<"$", ".">>

\* C10: a leading "$." on the path is optional: for any document d and path
\* p, extract(d, "$." + p) has the same outcome (same value or same failure)
\* as extract(d, p).
C10_DollarPrefixOptional ==
    ExtractDone => extract_json_path(doc, DollarDot \o path) = ret

\* C10 amended: the same for every path p that does not itself begin with "$.".
C10_DollarPrefixOptionalOnce ==
    (ExtractDone /\ ~startswith(path, DollarDot)) =>
        extract_json_path(doc, DollarDot \o path) = ret

\* An extraction through two segments, written without the prefix, that
\* returns a value which the prefixed path returns too.
C10_Witness ==
    /\ ExtractDone /\ ~startswith(path, DollarDot)
    /\ Len(selectors) = 2
    /\ Returned(ret) /\ ret.val = Str(<<"x", "y">>)
    /\ extract_json_path(doc, DollarDot \o path) = ret

(***************************************************************************)
(* compare_json(json1, json2, ignore_order) with _compare_values.          *)
(*                                                                         *)
(* json.loads makes an int of a number written without fraction or         *)
(* exponent and a float of any other; Float(n) is the float of value n.    *)
(* differences is a Python list the recursion appends to; here every       *)
(* operator takes the list so far and yields the list after.               *)
(***************************************************************************)
Float(n) == Prim("float", n)

\* type(v).__name__ as a str
TypeName(k) ==
    CASE k = "NoneType" -> <<"N", "o", "n", "e", "T", "y", "p", "e">>
      [] k = "bool" -> <<"b", "o", "o", "l">>
      [] k = "int" -> <<"i", "n", "t">>
      [] k = "float" -> <<"f", "l", "o", "a", "t">>
      [] k = "str" -> <<"s", "t", "r">>
      [] k = "list" -> <<"l", "i", "s", "t">>
      [] k = "dict" -> <<"d", "i", "c", "t">>

\* An element of differences.  The dicts the code appends have the keys
\* "type" and "path" and one or both of "old_value" and "new_value"; a key
\* the dict does not have is NoValue here.
Entry(type, p, old, new) ==
    [type |-> type, path |-> p, old_value |-> old, new_value |-> new]

\* path or "root"
path_or_root(p) == IF p # <<>> THEN p ELSE <<"r", "o", "o", "t">>

\* f"{path}.{key}" if path else key
key_path(p, key) == IF p # <<>> THEN p \o <<".">> \o key ELSE key

\* f"{path}[{i}]" if path else f"[{i}]"  (Variant: positions counted from 1.)
index_path_from_one(p, i) ==
    IF p # <<>> THEN p \o <<"[">> \o IntText(i + 1) \o <<"]">>
    ELSE <<"[">> \o IntText(i + 1) \o <<"]">>
index_path(p, i) ==
    IF p # <<>> THEN p \o <<"[">> \o IntText(i) \o <<"]">>
    ELSE <<"[">> \o IntText(i) \o <<"]">>

\* for key in <a set of keys>: the keys of the set in the order this process
\* iterates them.  The order of a set of strs follows their hashes, which
\* differ from process to process; order lists all keys in that order.
RECURSIVE iterate(_, _)
iterate(S, order) ==
    IF order = <<>> THEN <<>>
    ELSE (IF Head(order) \in S THEN <<Head(order)>> ELSE <<>>) \o iterate(S, Tail(order))

\* if type(val1) != type(val2)  (Variant: no two types differ.)
type_differs_never(val1, val2) == FALSE
type_differs(val1, val2) == val1.k # val2.k

\* The entry appended for two values of different types.
type_mismatch(val1, val2, p, differences) ==
    Append(differences, Entry("Type mismatch", path_or_root(p),
                              Str(TypeName(val1.k)), Str(TypeName(val2.k))))

\* for key in keys1 - keys2: ...
RECURSIVE removed_keys(_, _, _, _)
removed_keys(val1, p, differences, ks) ==
    IF ks = <<>> THEN differences
    ELSE removed_keys(val1, p,
                      Append(differences, Entry("Key removed", key_path(p, Head(ks)),
                                                val1.fields[Head(ks)], NoValue)),
                      Tail(ks))

\* for key in keys2 - keys1: ...
RECURSIVE added_keys(_, _, _, _)
added_keys(val2, p, differences, ks) ==
    IF ks = <<>> THEN differences
    ELSE added_keys(val2, p,
                    Append(differences, Entry("Key added", key_path(p, Head(ks)),
                                              NoValue, val2.fields[Head(ks)])),
                    Tail(ks))

\* if len(val1) != len(val2): differences.append(...)  (Variant: the lengths
\* are not compared.)
length_check_never(val1, val2, p, differences) == differences
length_check(val1, val2, p, differences) ==
    IF Len(val1.items) # Len(val2.items)
    THEN Append(differences, Entry("Array length mismatch", path_or_root(p),
                                   Num(Len(val1.items)), Num(Len(val2.items))))
    ELSE differences

\* The last branch: if val1 != val2: differences.append(...)  (Variant: an
\* entry for every pair.)
value_check_always(val1, val2, p, differences) ==
    Append(differences, Entry("Value changed", path_or_root(p), val1, val2))
value_check(val1, val2, p, differences) ==
    IF val1 # val2
    THEN Append(differences, Entry("Value changed", path_or_root(p), val1, val2))
    ELSE differences

RECURSIVE _compare_values(_, _, _, _, _, _), shared_keys(_, _, _, _, _, _, _),
          compare_items(_, _, _, _, _, _, _), compare_list(_, _, _, _, _, _)

\* for key in keys1 & keys2: ...
shared_keys(val1, val2, p, differences, ignore, order, ks) ==
    IF ks = <<>> THEN differences
    ELSE shared_keys(val1, val2, p,
                     _compare_values(val1.fields[Head(ks)], val2.fields[Head(ks)],
                                     key_path(p, Head(ks)), differences, ignore, order),
                     ignore, order, Tail(ks))

\* for i, (item1, item2) in enumerate(zip(val1, val2)): ..., from position i on
compare_items(val1, val2, p, differences, ignore, order, i) ==
    IF i >= Len(val1.items) \/ i >= Len(val2.items) THEN differences
    ELSE compare_items(val1, val2, p,
                       _compare_values(val1.items[i + 1], val2.items[i + 1],
                                       index_path(p, i), differences, ignore, order),
                       ignore, order, i + 1)

\* The list branch.  (Variant: the elements are compared whatever
\* ignore_order is.)
compare_list_ordered(val1, val2, p, differences, ignore, order) ==
    compare_items(val1, val2, p, length_check(val1, val2, p, differences),
                  ignore, order, 0)
compare_list(val1, val2, p, differences, ignore, order) ==
    IF ignore THEN length_check(val1, val2, p, differences)
    ELSE compare_items(val1, val2, p, length_check(val1, val2, p, differences),
                       ignore, order, 0)

_compare_values(val1, val2, p, differences, ignore, order) ==
    IF type_differs(val1, val2) THEN type_mismatch(val1, val2, p, differences)
    ELSE IF IsDict(val1) THEN
        LET keys1 == DOMAIN val1.fields
            keys2 == DOMAIN val2.fields
            removed == removed_keys(val1, p, differences, iterate(keys1 \ keys2, order))
            added == added_keys(val2, p, removed, iterate(keys2 \ keys1, order))
        IN  shared_keys(val1, val2, p, added, ignore, order,
                        iterate(keys1 \cap keys2, order))
    ELSE IF IsList(val1) THEN compare_list(val1, val2, p, differences, ignore, order)
    ELSE value_check(val1, val2, p, differences)

compare_json(text1, text2, ignore, order) ==
    LET data1 == json_loads(text1)
        data2 == json_loads(text2)
    IN  IF Raised(data1) \/ Raised(data2) THEN Raise("ValueError", "Invalid JSON")
        ELSE Return(_compare_values(data1.val, data2.val, <<>>, <<>>, ignore, order))

(***************************************************************************)
(* Inputs of compare_json: two texts, each malformed or a value nested up  *)
(* to MaxDepth levels: the leaves, the empty containers, and objects and   *)
(* arrays around the values one level less deep.                           *)
(***************************************************************************)
DiffLeaves == {None, Bool(TRUE), Num(1), Num(2), Float(1), Float(2), Str(<<"x">>)}

Around(v) ==
    {Dict(<<"a">> :> v), Dict(<<"b">> :> v), Dict((<<"a">> :> v) @@ (<<"b">> :> Num(1))),
     List(<<v>>), List(<<v, Num(1)>>), List(<<Num(2), v>>)}

RECURSIVE Spine(_)
Spine(d) ==
    IF d = 0 THEN {Num(1), Num(2), Float(1), EmptyDict, List(<<>>)}
    ELSE UNION {{Dict(<<"a">> :> v), List(<<v>>)} : v \in Spine(d - 1)}

RECURSIVE DiffValues(_)
DiffValues(d) ==
    IF d = 0 THEN DiffLeaves \cup {EmptyDict, List(<<>>)}
    ELSE DiffValues(d - 1) \cup UNION {Around(v) : v \in Spine(d - 1)}

DiffTexts == {Malformed} \cup {Text(v) : v \in DiffValues(MaxDepth)}

\* The orders in which a process may iterate the keys.
KeyOrders == {<<<<"a">>, <<"b">>>>, <<<<"b">>, <<"a">>>>}

InitCompare ==
    /\ op = "compare_json"
    /\ pc = "call"
    /\ json1 \in DiffTexts
    /\ json2 \in DiffTexts
    /\ ignore_order \in BOOLEAN
    /\ hashOrder \in KeyOrders
    /\ NoMerge /\ NoExtract /\ NoPassword /\ NoHabits
    /\ ret = NoOutcome

Compare ==
    /\ op = "compare_json" /\ pc = "call"
    /\ ret' = compare_json(json1, json2, ignore_order, hashOrder)
    /\ pc' = "done"
    /\ UNCHANGED <<op, mergeVars, extractVars, compareVars, passwordVars, habitVars>>

NextCompare == Compare
SpecCompare == InitCompare /\ [][NextCompare]_vars

(***************************************************************************)
(* Properties of the structural differ.                                    *)
(*                                                                         *)
(* Kind and SameValue are the Value model of section 3 of the              *)
(* specification: six kinds, a Number being an int or a float, and         *)
(* equality within a kind.  Visited is the set of pairs the algorithm of   *)
(* section 4.3 compares, each with the path it is compared at.             *)
(***************************************************************************)
Kind(v) ==
    CASE v.k = "NoneType" -> "Null"
      [] v.k = "bool" -> "Bool"
      [] v.k \in {"int", "float"} -> "Number"
      [] v.k = "str" -> "String"
      [] v.k = "list" -> "Array"
      [] v.k = "dict" -> "Object"

IsPrimitive(v) == Kind(v) \notin {"Array", "Object"}

RECURSIVE SameValue(_, _)
SameValue(x, y) ==
    /\ Kind(x) = Kind(y)
    /\ CASE Kind(x) = "Number" -> x.n = y.n
         [] Kind(x) = "Array" ->
                /\ Len(x.items) = Len(y.items)
                /\ \A i \in 1..Len(x.items) : SameValue(x.items[i], y.items[i])
         [] Kind(x) = "Object" ->
                /\ DOMAIN x.fields = DOMAIN y.fields
                /\ \A key \in DOMAIN x.fields : SameValue(x.fields[key], y.fields[key])
         [] OTHER -> x = y

Min(m, n) == IF m <= n THEN m ELSE n
Max(m, n) == IF m >= n THEN m ELSE n

\* The path of a field and of a position under the path p, and the path an
\* entry about p carries.
FieldPath(p, key) == IF p = <<>> THEN key ELSE p \o <<".">> \o key
PositionPath(p, i) == p \o <<"[">> \o IntText(i) \o <<"]">>
Shown(p) == IF p = <<>> THEN <<"r", "o", "o", "t">> ELSE p

RECURSIVE Visited(_, _, _, _)
Visited(x, y, p, ignoreOrder) ==
    {[path |-> p, a |-> x, b |-> y]} \cup
        (IF Kind(x) # Kind(y) THEN {}
         ELSE IF Kind(x) = "Object" THEN
             UNION {Visited(x.fields[key], y.fields[key], FieldPath(p, key), ignoreOrder) :
                       key \in DOMAIN x.fields \cap DOMAIN y.fields}
         ELSE IF Kind(x) = "Array" /\ ~ignoreOrder THEN
             UNION {Visited(x.items[i], y.items[i], PositionPath(p, i - 1), ignoreOrder) :
                       i \in 1..Min(Len(x.items), Len(y.items))}
         ELSE {})

CompareDone == op = "compare_json" /\ pc = "done"
Compared == CompareDone /\ json1.wellformed /\ json2.wellformed
Pairs == Visited(json1.tree, json2.tree, <<>>, ignore_order)
ObjectPairs == {v \in Pairs : Kind(v.a) = "Object" /\ Kind(v.b) = "Object"}
ArrayPairs == {v \in Pairs : Kind(v.a) = "Array" /\ Kind(v.b) = "Array"}

\* The positions in the returned sequence of the entries with a given path,
\* with a given kind and path, and with a path below p or at or below p.
EntriesAt(p) == {i \in 1..Len(ret.val) : ret.val[i].path = p}
EntriesOf(type, p) == {i \in EntriesAt(p) : ret.val[i].type = type}
Below(p, q) ==
    IF p = <<>> THEN q # Shown(p)
    ELSE startswith(q, p \o <<".">>) \/ startswith(q, p \o <<"[">>)
EntriesBelow(p) == {i \in 1..Len(ret.val) : Below(p, ret.val[i].path)}
EntriesUnder(p) == EntriesAt(Shown(p)) \cup EntriesBelow(p)

\* C11: diff is reflexive: for every document value x, of any kind and
\* nesting, and either setting of ignoreOrder, diff(x, x) is the empty
\* sequence.
C11_Reflexive ==
    (Compared /\ json1.tree = json2.tree) => ret = Return(<<>>)

\* An array that holds an object and a number, compared with itself in order.
C11_Witness ==
    /\ Compared /\ json1.tree = json2.tree /\ ~ignore_order
    /\ json1.tree = List(<<Dict(<<"a">> :> Num(1)), Num(1)>>)
    /\ ret = Return(<<>>)

OnlyIn(x, y) == DOMAIN x.fields \ DOMAIN y.fields
InBoth(x, y) == DOMAIN x.fields \cap DOMAIN y.fields

\* The entries the comparison of two objects at v.path owes to the keys that
\* only one of them has, and to the shared keys whose values are primitives
\* or of different kinds and differ.
KeysReported(v) ==
    /\ \A key \in OnlyIn(v.a, v.b) :
          /\ Cardinality(EntriesOf("Key removed", FieldPath(v.path, key))) = 1
          /\ \A i \in EntriesOf("Key removed", FieldPath(v.path, key)) :
                ret.val[i].old_value = v.a.fields[key]
    /\ \A key \in OnlyIn(v.b, v.a) :
          /\ Cardinality(EntriesOf("Key added", FieldPath(v.path, key))) = 1
          /\ \A i \in EntriesOf("Key added", FieldPath(v.path, key)) :
                ret.val[i].new_value = v.b.fields[key]
    /\ \A key \in InBoth(v.a, v.b) :
          LET x == v.a.fields[key]
              y == v.b.fields[key]
          IN  (~SameValue(x, y) /\ (Kind(x) # Kind(y) \/ IsPrimitive(x))) =>
                  Cardinality(EntriesAt(FieldPath(v.path, key))) = 1

\* C12: when diff compares two objects a and b at a path, it emits exactly
\* one KeyRemoved entry (carrying a's value) for each key only in a, exactly
\* one KeyAdded entry (carrying b's value) for each key only in b, recurses
\* into each shared key with path parent.key (bare key at root), and emits
\* no entry for a shared key whose two values are equal.
C12_ObjectKeys ==
    Compared =>
        \A v \in ObjectPairs :
            /\ KeysReported(v)
            /\ \A key \in InBoth(v.a, v.b) :
                  SameValue(v.a.fields[key], v.b.fields[key]) =>
                      EntriesUnder(FieldPath(v.path, key)) = {}

\* C12 for shared keys whose two values json.loads made alike (an int and a
\* float of the same value set aside): what the code does there.
C12_ObjectKeysAlike ==
    Compared =>
        \A v \in ObjectPairs :
            /\ KeysReported(v)
            /\ \A key \in InBoth(v.a, v.b) :
                  v.a.fields[key] = v.b.fields[key] =>
                      EntriesUnder(FieldPath(v.path, key)) = {}

\* Two objects that share a key whose values are objects, with a key only the
\* first has at both levels, and the entries for both keys.
C12_ObjectKeysAlikeWitness ==
    /\ Compared
    /\ json1.tree = Dict((<<"a">> :> Dict(<<"a">> :> Num(1))) @@ (<<"b">> :> Num(1)))
    /\ json2.tree = Dict(<<"a">> :> EmptyDict)
    /\ EntriesOf("Key removed", <<"a", ".", "a">>) # {}
    /\ EntriesOf("Key removed", <<"b">>) # {}

\* C13: whenever diff compares two arrays of different lengths at a path, it
\* emits exactly one ArrayLengthMismatch entry at that path carrying both
\* lengths, both when ignoreOrder is false and when it is true.
C13_LengthMismatchReported ==
    Compared =>
        \A v \in ArrayPairs :
            Len(v.a.items) # Len(v.b.items) =>
                /\ Cardinality(EntriesOf("Array length mismatch", Shown(v.path))) = 1
                /\ \A i \in EntriesOf("Array length mismatch", Shown(v.path)) :
                      /\ ret.val[i].old_value = Num(Len(v.a.items))
                      /\ ret.val[i].new_value = Num(Len(v.b.items))

\* An empty array and an array of one element under a key, compared with
\* ignoreOrder set, and the one entry for them.
C13_Witness ==
    /\ Compared /\ ignore_order
    /\ json1.tree = Dict(<<"a">> :> List(<<>>))
    /\ json2.tree = Dict(<<"a">> :> List(<<Num(1)>>))
    /\ ret.val = <<Entry("Array length mismatch", <<"a">>, Num(0), Num(1))>>

\* Without ignoreOrder: arrays of different lengths whose first elements are
\* arrays of different lengths, and one entry for each pair.
C13_WitnessOrdered ==
    /\ Compared /\ ~ignore_order
    /\ json1.tree = List(<<List(<<Num(2)>>), Num(1)>>)
    /\ json2.tree = List(<<List(<<>>)>>)
    /\ ret.val = <<Entry("Array length mismatch", <<"r", "o", "o", "t">>, Num(2), Num(1)),
                   Entry("Array length mismatch", <<"[", "0", "]">>, Num(1), Num(0))>>

\* C14: type mismatch short-circuits recursion: when the two values compared
\* at a path have different types, diff emits exactly one TypeMismatch entry
\* at that path ("root" for the empty path) and no entry at any path below
\* it, whatever the values contain.
C14_TypeMismatchShortCircuits ==
    Compared =>
        \A v \in Pairs :
            Kind(v.a) # Kind(v.b) =>
                /\ Cardinality(EntriesOf("Type mismatch", Shown(v.path))) = 1
                /\ EntriesUnder(v.path) = EntriesOf("Type mismatch", Shown(v.path))

\* A number and an object under a shared key: one entry, at the key, and none
\* for what the object holds.
C14_Witness ==
    /\ Compared
    /\ json1.tree = Dict(<<"a">> :> Num(1))
    /\ json2.tree = Dict(<<"a">> :> Dict(<<"a">> :> Num(1)))
    /\ ret.val = <<Entry("Type mismatch", <<"a">>,
                         Str(<<"i", "n", "t">>), Str(<<"d", "i", "c", "t">>))>>

\* An array and an object at the root: one entry, with the path "root".
C14_WitnessRoot ==
    /\ Compared
    /\ json1.tree = List(<<Num(2), Dict(<<"a">> :> Num(1))>>)
    /\ json2.tree = Dict(<<"a">> :> List(<<Num(1)>>))
    /\ Len(ret.val) = 1
    /\ ret.val[1].type = "Type mismatch" /\ ret.val[1].path = <<"r", "o", "o", "t">>

C16_PairwiseOverCommonPrefix ==
    (Compared /\ ~ignore_order) =>
        \A v \in ArrayPairs :
            LET common == Min(Len(v.a.items), Len(v.b.items))
                longest == Max(Len(v.a.items), Len(v.b.items))
                Position(i) == PositionPath(v.path, i)
            IN  /\ \A i \in 0..(common - 1) :
                      LET x == v.a.items[i + 1]
                          y == v.b.items[i + 1]
                      IN  (~SameValue(x, y) /\ (Kind(x) # Kind(y) \/ IsPrimitive(x))) =>
                              Cardinality(EntriesAt(Position(i))) = 1
                /\ \A i \in common..(longest - 1) : EntriesUnder(Position(i)) = {}
                /\ EntriesBelow(v.path) = UNION {EntriesUnder(Position(i)) : i \in 0..(common - 1)}
                /\ \A i, j \in 0..(common - 1) :
                      i < j => \A m \in EntriesUnder(Position(i)), n \in EntriesUnder(Position(j)) : m < n

\* Arrays of two and of one element whose first elements are arrays that
\* differ in their element: the length entry, and one entry at [0][0].
C16_Witness ==
    /\ Compared /\ ~ignore_order
    /\ json1.tree = List(<<List(<<Num(1)>>), Num(1)>>)
    /\ json2.tree = List(<<List(<<Num(2)>>)>>)
    /\ ret.val = <<Entry("Array length mismatch", <<"r", "o", "o", "t">>, Num(2), Num(1)),
                   Entry("Value changed", <<"[", "0", "]", "[", "0", "]">>, Num(1), Num(2))>>

\* Arrays of two elements that differ at both positions: the entry for
\* position 0 and then the entry for position 1.
C16_WitnessInOrder ==
    /\ Compared /\ ~ignore_order
    /\ json1.tree = List(<<EmptyDict, Num(1)>>)
    /\ json2.tree = List(<<Num(2), Num(2)>>)
    /\ Len(ret.val) = 2
    /\ ret.val[1].path = <<"[", "0", "]">>
    /\ ret.val[2] = Entry("Value changed", <<"[", "1", "]">>, Num(1), Num(2))

\* What is reported at its path for a pair of primitives that are to be
\* compared by value: one ValueChanged entry with both values when they
\* differ, nothing when they are equal.
ComparedByValue(v) ==
    IF SameValue(v.a, v.b) THEN EntriesAt(Shown(v.path)) = {}
    ELSE /\ Cardinality(EntriesAt(Shown(v.path))) = 1
         /\ \A i \in EntriesAt(Shown(v.path)) :
               ret.val[i] = Entry("Value changed", Shown(v.path), v.a, v.b)

\* C17: diff reports TypeMismatch for a compared pair exactly when the two
\* values belong to different kinds of the document Value model (Null, Bool,
\* Number, String, Array, Object); two values of the same kind, in particular
\* any two Numbers, are compared by value and yield ValueChanged when unequal
\* and nothing when equal.
C17_TypeMismatchIffKindsDiffer ==
    Compared =>
        \A v \in Pairs :
            /\ EntriesOf("Type mismatch", Shown(v.path)) # {} <=> Kind(v.a) # Kind(v.b)
            /\ (Kind(v.a) = Kind(v.b) /\ IsPrimitive(v.a)) => ComparedByValue(v)

\* C17 with the types json.loads gives in the place of the kinds, int and
\* float being two types: what the code does.
C17_TypeMismatchIffTypesDiffer ==
    Compared =>
        \A v \in Pairs :
            /\ EntriesOf("Type mismatch", Shown(v.path)) # {} <=> v.a.k # v.b.k
            /\ (v.a.k = v.b.k /\ IsPrimitive(v.a)) => ComparedByValue(v)

\* Two floats that differ, two ints that differ under a key.
C17_TypesWitness ==
    /\ Compared
    /\ \/ /\ json1.tree = Float(1) /\ json2.tree = Float(2)
          /\ ret.val = <<Entry("Value changed", <<"r", "o", "o", "t">>, Float(1), Float(2))>>
       \/ /\ json1.tree = Dict(<<"a">> :> Num(1)) /\ json2.tree = Dict(<<"a">> :> Num(2))
          /\ ret.val = <<Entry("Value changed", <<"a">>, Num(1), Num(2))>>

(***************************************************************************)
(* json.dumps, and the texts given to the tools of the server.             *)
(***************************************************************************)
\* str(n) for an int n
RECURSIVE NaturalText(_)
NaturalText(n) ==
    IF n < 10 THEN <<Digits[n + 1]>>
    ELSE NaturalText(n \div 10) \o <<Digits[(n % 10) + 1]>>
str_int(n) == IF n < 0 THEN <<"-">> \o NaturalText(0 - n) ELSE NaturalText(n)

\* ' ' * n
Spaces(n) == [i \in 1..n |-> " "]

\* sep.join(parts)
RECURSIVE join(_, _)
join(sep, parts) ==
    IF parts = <<>> THEN <<>>
    ELSE IF Len(parts) = 1 THEN parts[1]
    ELSE parts[1] \o sep \o join(sep, Tail(parts))

\* indent=None
NoIndent == 0 - 1

\* json.dumps(v, indent=indent, separators=(item_separator, key_separator)),
\* for v nested level levels deep in what is dumped.  The keys of a dict come
\* in its insertion order, which is KeySeq here.  No str of the model holds a
\* character that json.dumps escapes.
RECURSIVE dumps(_, _, _, _, _)
dumps(v, indent, item_separator, key_separator, level) ==
    LET inner == IF indent = NoIndent THEN <<>>
                 ELSE <<"\n">> \o Spaces(indent * (level + 1))
        outer == IF indent = NoIndent THEN <<>> ELSE <<"\n">> \o Spaces(indent * level)
        ks == KeySeq(DOMAIN v.fields)
        item(i) == dumps(v.items[i], indent, item_separator, key_separator, level + 1)
        member(i) ==
            <<"\"">> \o ks[i] \o <<"\"">> \o key_separator
                \o dumps(v.fields[ks[i]], indent, item_separator, key_separator, level + 1)
    IN  CASE v.k = "NoneType" -> <<"n", "u", "l", "l">>
          [] v.k = "bool" ->
                IF v.n = 1 THEN <<"t", "r", "u", "e">> ELSE <<"f", "a", "l", "s", "e">>
          [] v.k = "int" -> str_int(v.n)
          [] v.k = "float" -> str_int(v.n) \o <<".", "0">>
          [] v.k = "str" -> <<"\"">> \o v.s \o <<"\"">>
          [] v.k = "list" ->
                IF v.items = <<>> THEN <<"[", "]">>
                ELSE <<"[">> \o inner
                        \o join(item_separator \o inner, [i \in 1..Len(v.items) |-> item(i)])
                        \o outer \o <<"]">>
          [] v.k = "dict" ->
                IF ks = <<>> THEN <<"{", "}">>
                ELSE <<"{">> \o inner
                        \o join(item_separator \o inner, [i \in 1..Len(ks) |-> member(i)])
                        \o outer \o <<"}">>

\* json.dumps(v), json.dumps(v, indent=indent), json.dumps(v, separators=(',', ':'))
dumps_default(v) == dumps(v, NoIndent, <<",", " ">>, <<":", " ">>, 0)
dumps_indent(v, indent) == dumps(v, indent, <<",">>, <<":", " ">>, 0)
dumps_compact(v) == dumps(v, NoIndent, <<",">>, <<":">>, 0)

\* A text given to a tool: its characters, with what json.loads (or
\* yaml.safe_load) makes of the whole.
Source(v) == [wellformed |-> TRUE, tree |-> v, chars |-> dumps_default(v)]
MalformedSource(chars) == [wellformed |-> FALSE, tree |-> NoValue, chars |-> chars]
NoSource == MalformedSource(<<>>)

\* The text that is one character of a str: json.loads makes an int of a
\* digit and raises for every other character.
CharText(c) ==
    IF IsDigit(c) THEN Text(Num(DigitValue(c))) ELSE Malformed

\* for obj_str in json_objects, json_objects a str: its characters
str_iter(chars) == [i \in 1..Len(chars) |-> CharText(chars[i])]

(***************************************************************************)
(* The other functions of json_tools.py that the tools call.               *)
(***************************************************************************)
Tuple(xs) == [k |-> "tuple", n |-> 0, s |-> <<>>, items |-> xs, fields |-> <<>>]

\* A float that need not be whole: num / den.
Quotient(num, den) == Prim("float", [num |-> num, den |-> den])

\* A str whose characters are not spelled out: it begins with head and goes
\* on with the text of payload in the format head names.
Opaque(head, payload) ==
    [k |-> "str", n |-> 0, s |-> <<head>>, items |-> <<payload>>, fields |-> <<>>]

format_json(json_string, indent) ==
    LET data == json_loads(json_string)
        formatted == dumps_indent(data.val, indent)
        stats == Dict((<<"o", "r", "i", "g", "i", "n", "a", "l", "_", "s", "i", "z", "e">>
                           :> Num(Len(json_string.chars)))
                   @@ (<<"f", "o", "r", "m", "a", "t", "t", "e", "d", "_", "s", "i", "z", "e">>
                           :> Num(Len(formatted)))
                   @@ (<<"l", "i", "n", "e", "s">> :> Num(Len(split(formatted, "\n")))))
    IN  IF Raised(data) THEN Raise("ValueError", "Invalid JSON")
        ELSE Return(Tuple(<<Str(formatted), stats>>))

minify_json(json_string) ==
    LET data == json_loads(json_string)
        minified == dumps_compact(data.val)
        original_size == Len(json_string.chars)
        stats == Dict((<<"o", "r", "i", "g", "i", "n", "a", "l", "_", "s", "i", "z", "e">>
                           :> Num(original_size))
                   @@ (<<"m", "i", "n", "i", "f", "i", "e", "d", "_", "s", "i", "z", "e">>
                           :> Num(Len(minified)))
                   @@ (<<"r", "e", "d", "u", "c", "t", "i", "o", "n", "_",
                         "p", "e", "r", "c", "e", "n", "t">>
                           :> Quotient((original_size - Len(minified)) * 100, original_size)))
    IN  IF Raised(data) THEN Raise("ValueError", "Invalid JSON")
        ELSE Return(Tuple(<<Str(minified), stats>>))

\* yaml.dump and yaml.safe_load are PyYAML's: the YAML text of a document is
\* held by the document it denotes.
yaml_dump(data) == Opaque("yaml", data)
yaml_safe_load(text) ==
    IF text.wellformed THEN Return(text.tree) ELSE Raise("YAMLError", "")

convert_json_to_yaml(json_string) ==
    LET data == json_loads(json_string)
    IN  IF Raised(data) THEN Raise("ValueError", "Invalid JSON")
        ELSE Return(yaml_dump(data.val))

convert_yaml_to_json(yaml_string, indent) ==
    LET data == yaml_safe_load(yaml_string)
    IN  IF Raised(data) THEN Raise("ValueError", "Invalid YAML")
        ELSE Return(Str(dumps_indent(data.val, indent)))

(***************************************************************************)
(* The tools of the json-formatter server (server.py).  A tool calls one   *)
(* function of json_tools.py and subscripts what it returns; it has no     *)
(* try, so an exception raised in its body is the outcome of the call.     *)
(***************************************************************************)
SuccessKey == <<"s", "u", "c", "c", "e", "s", "s">>
ResultKey == <<"r", "e", "s", "u", "l", "t">>
ErrorKey == <<"e", "r", "r", "o", "r">>
EqualKey == <<"e", "q", "u", "a", "l">>
AddedKey == <<"a", "d", "d", "e", "d">>
RemovedKey == <<"r", "e", "m", "o", "v", "e", "d">>
ModifiedKey == <<"m", "o", "d", "i", "f", "i", "e", "d">>

\* The characters U+2705, U+274C and U+1F4CA that start the messages.
CheckMark == "<check mark>"
CrossMark == "<cross mark>"
BarChart == "<bar chart>"

\* indent: int = 2
DefaultIndent == 2

\* if v:
truthy(v) ==
    CASE v.k = "NoneType" -> FALSE
      [] v.k \in {"bool", "int", "float"} -> v.n # 0
      [] v.k = "str" -> v.s # <<>>
      [] v.k \in {"list", "tuple"} -> v.items # <<>>
      [] v.k = "dict" -> DOMAIN v.fields # {}

\* return f"<cross mark> Error: {result['error']}"
error_message(result) ==
    LET error == getitem_key(result, ErrorKey)
    IN  IF Raised(error) THEN error ELSE Return(Opaque(CrossMark, error.val))

\* if result['success']: return f"<check mark> ...{result['result']}"
\* else: return f"<cross mark> Error: {result['error']}"
\* after result = <call>, which may have raised.
respond(result) ==
    IF Raised(result) THEN result
    ELSE LET success == getitem_key(result.val, SuccessKey)
             shown == getitem_key(result.val, ResultKey)
         IN  IF Raised(success) THEN success
             ELSE IF truthy(success.val)
                  THEN IF Raised(shown) THEN shown
                       ELSE Return(Opaque(CheckMark, shown.val))
             ELSE error_message(result.val)

format_json_string(json_string, indent) == respond(format_json(json_string, indent))

minify_json_string(json_string) == respond(minify_json(json_string))

json_to_yaml(json_string) == respond(convert_json_to_yaml(json_string))

yaml_to_json(yaml_string, indent) == respond(convert_yaml_to_json(yaml_string, indent))

\* result = merge_json(json1, json2): the str json1 is json_objects, the str
\* json2 is deep_merge.
merge_json_objects(h, text1, text2) ==
    LET r == merge_json(h, str_iter(text1.chars), text2.chars # <<>>)
    IN  [heap |-> r.heap, objs |-> r.objs, slot |-> r.slot, out |-> respond(r.out)]

extract_value_from_json(json_string, p) == respond(extract_json_path(json_string, p))

\* The report of compare_json_objects: comp = result['result'] ...
comparison_report(result) ==
    LET comp == getitem_key(result, ResultKey)
        equal == getitem_key(comp.val, EqualKey)
        added == getitem_key(comp.val, AddedKey)
        removed == getitem_key(comp.val, RemovedKey)
        modified == getitem_key(comp.val, ModifiedKey)
    IN  IF Raised(comp) THEN comp
        ELSE IF Raised(equal) THEN equal
        ELSE IF truthy(equal.val) THEN Return(Opaque(BarChart, comp.val))
        ELSE IF Raised(added) THEN added
        ELSE IF Raised(removed) THEN removed
        ELSE IF Raised(modified) THEN modified
        ELSE Return(Opaque(BarChart, comp.val))

compare_json_objects(text1, text2, order) ==
    LET differences == compare_json(text1, text2, FALSE, order)
        success == getitem_key(List(differences.val), SuccessKey)
    IN  IF Raised(differences) THEN differences
        ELSE IF Raised(success) THEN success
        ELSE IF truthy(success.val) THEN comparison_report(List(differences.val))
        ELSE error_message(List(differences.val))

(***************************************************************************)
(* Inputs of the tools: texts of a few documents, among them an object     *)
(* with the keys a tool looks for, an empty text and a truncated text; and *)
(* for extract_value_from_json the path of a key.                          *)
(***************************************************************************)
ToolValues ==
    {Num(1), List(<<Num(1)>>), EmptyDict,
     Dict(<<"a">> :> Num(1)), Dict(<<"a">> :> Num(2)),
     Dict((<<"a">> :> Num(1)) @@ (<<"b">> :> Dict(<<"a">> :> Num(1)))),
     Dict(<<"a">> :> Dict((SuccessKey :> Bool(TRUE)) @@ (ResultKey :> Num(1)))),
     Dict(<<"a">> :> Dict((SuccessKey :> Bool(FALSE)) @@ (ErrorKey :> Str(<<"x">>))))}
Truncated == MalformedSource(<<"{", "\"", "a", "\"", ":">>)
JsonSources == {NoSource, Truncated} \cup {Source(v) : v \in ToolValues}
YamlSources == {Truncated} \cup {Source(v) : v \in ToolValues}
ToolPaths == {<<"a">>, <<"b">>, <<"a", ".", "a">>}

OneTextTools == {"format_json_string", "minify_json_string", "json_to_yaml"}
TwoTextTools == {"merge_json_objects", "compare_json_objects"}

InitTools ==
    /\ pc = "call"
    /\ \/ /\ op \in OneTextTools
          /\ json1 \in JsonSources
          /\ json2 = NoSource /\ path = <<>> /\ hashOrder = <<>>
       \/ /\ op = "yaml_to_json"
          /\ json1 \in YamlSources
          /\ json2 = NoSource /\ path = <<>> /\ hashOrder = <<>>
       \/ /\ op = "extract_value_from_json"
          /\ json1 \in JsonSources
          /\ path \in ToolPaths
          /\ json2 = NoSource /\ hashOrder = <<>>
       \/ /\ op = "merge_json_objects"
          /\ json1 \in JsonSources
          /\ json2 \in JsonSources
          /\ path = <<>> /\ hashOrder = <<>>
       \/ /\ op = "compare_json_objects"
          /\ json1 \in JsonSources
          /\ json2 \in JsonSources
          /\ hashOrder \in KeyOrders
          /\ path = <<>>
    /\ ignore_order = FALSE
    /\ doc = Malformed /\ selectors = <<>>
    /\ NoMerge /\ NoPassword /\ NoHabits
    /\ ret = NoOutcome

FormatJsonString ==
    /\ op = "format_json_string" /\ pc = "call"
    /\ ret' = format_json_string(json1, DefaultIndent)
    /\ pc' = "done"
    /\ UNCHANGED <<op, mergeVars, extractVars, compareVars, passwordVars, habitVars>>

MinifyJsonString ==
    /\ op = "minify_json_string" /\ pc = "call"
    /\ ret' = minify_json_string(json1)
    /\ pc' = "done"
    /\ UNCHANGED <<op, mergeVars, extractVars, compareVars, passwordVars, habitVars>>

JsonToYaml ==
    /\ op = "json_to_yaml" /\ pc = "call"
    /\ ret' = json_to_yaml(json1)
    /\ pc' = "done"
    /\ UNCHANGED <<op, mergeVars, extractVars, compareVars, passwordVars, habitVars>>

YamlToJson ==
    /\ op = "yaml_to_json" /\ pc = "call"
    /\ ret' = yaml_to_json(json1, DefaultIndent)
    /\ pc' = "done"
    /\ UNCHANGED <<op, mergeVars, extractVars, compareVars, passwordVars, habitVars>>

MergeJsonObjects ==
    /\ op = "merge_json_objects" /\ pc = "call"
    /\ LET r == merge_json_objects(heap, json1, json2)
       IN  /\ heap' = r.heap
           /\ parsed' = r.objs
           /\ resultRef' = r.slot
           /\ ret' = r.out
    /\ pc' = "done"
    /\ UNCHANGED <<op, baseVal, overlayVal, base, overlay, docs, deep,
                   extractVars, compareVars, passwordVars, habitVars>>

ExtractValueFromJson ==
    /\ op = "extract_value_from_json" /\ pc = "call"
    /\ ret' = extract_value_from_json(json1, path)
    /\ pc' = "done"
    /\ UNCHANGED <<op, mergeVars, extractVars, compareVars, passwordVars, habitVars>>

CompareJsonObjects ==
    /\ op = "compare_json_objects" /\ pc = "call"
    /\ ret' = compare_json_objects(json1, json2, hashOrder)
    /\ pc' = "done"
    /\ UNCHANGED <<op, mergeVars, extractVars, compareVars, passwordVars, habitVars>>

NextTools ==
    \/ FormatJsonString \/ MinifyJsonString \/ JsonToYaml \/ YamlToJson
    \/ MergeJsonObjects \/ ExtractValueFromJson \/ CompareJsonObjects
SpecTools == InitTools /\ [][NextTools]_vars

(***************************************************************************)
(* Properties of the tools.                                                *)
(***************************************************************************)
Tools == OneTextTools \cup TwoTextTools \cup {"yaml_to_json", "extract_value_from_json"}
ToolDone == op \in Tools /\ pc = "done"

\* A returned str that starts with the error marker, and one that starts
\* with the marker of a tool's success string.
IsErrorMessage(r) ==
    Returned(r) /\ r.val.k = "str" /\ r.val.s # <<>> /\ r.val.s[1] = CrossMark
IsSuccessMessage(r) ==
    Returned(r) /\ r.val.k = "str" /\ r.val.s # <<>> /\ r.val.s[1] \in {CheckMark, BarChart}

\* The outcome of the core operation a tool is the adapter of, on the
\* arguments of the call: for the merge tool the merge of the two documents
\* in order.
CoreOutcome ==
    CASE op = "format_json_string" -> format_json(json1, DefaultIndent)
      [] op = "minify_json_string" -> minify_json(json1)
      [] op = "json_to_yaml" -> convert_json_to_yaml(json1)
      [] op = "yaml_to_json" -> convert_yaml_to_json(json1, DefaultIndent)
      [] op = "merge_json_objects" -> merge_json(<<>>, <<json1, json2>>, TRUE).out
      [] op = "extract_value_from_json" -> extract_json_path(json1, path)
      [] op = "compare_json_objects" -> compare_json(json1, json2, FALSE, hashOrder)

\* C18: every error of a JSON core operation reaches the tool caller as a
\* user-facing message: for each json-formatter tool (format, minify,
\* json_to_yaml, yaml_to_json, merge, extract, compare), a call with
\* malformed input text returns a string starting with the error marker
\* instead of raising, and a call with valid input returns the success
\* string.
C18_ErrorsBecomeMessages ==
    ToolDone =>
        IF Raised(CoreOutcome) THEN IsErrorMessage(ret) ELSE IsSuccessMessage(ret)

\* What the tools do: an error of the core operation leaves the tool as the
\* exception it is, and a result of the core operation that is not a dict
\* with the key "success" is answered with a TypeError or a KeyError.
C18_ErrorsPropagate ==
    ToolDone =>
        /\ (op # "merge_json_objects" /\ Raised(CoreOutcome)) => ret = CoreOutcome
        /\ (Returned(CoreOutcome) /\ op \notin {"extract_value_from_json", "merge_json_objects"})
              => ret = Raise("TypeError", "")
        /\ op = "merge_json_objects" =>
              \/ ret.exc = "ValueError"
              \/ json1.chars = <<>> /\ ret = RaiseAbout("KeyError", "", SuccessKey)

\* The calls that fail as the tools do: a malformed text, and a valid one.
C18_PropagateWitness ==
    /\ ToolDone /\ op = "format_json_string"
    /\ \/ json1 = Truncated /\ ret = Raise("ValueError", "Invalid JSON")
       \/ json1 = Source(Dict(<<"a">> :> Num(1))) /\ ret = Raise("TypeError", "")

\* A member-wise override of t1 by t2.
Override(t1, t2) ==
    Dict([key \in DOMAIN t1.fields \cup DOMAIN t2.fields |->
             IF key \in DOMAIN t2.fields THEN t2.fields[key] ELSE t1.fields[key]])

\* C19: the merge_json_objects tool, given two JSON object texts json1 and
\* json2, returns a success message containing their merged object, in which
\* json2's value overrides json1's for every duplicate key (nested objects
\* merged as in section 4.1, or replaced).
C19_MergeToolMerges ==
    (op = "merge_json_objects" /\ pc = "done"
        /\ json1.wellformed /\ json2.wellformed
        /\ IsDict(json1.tree) /\ IsDict(json2.tree)) =>
        /\ IsSuccessMessage(ret)
        /\ ret.val.items[1] \in {MergeOf(json1.tree, json2.tree),
                                 Override(json1.tree, json2.tree)}

\* What the tool does with two object texts: it iterates the characters of
\* json1 as if they were documents and fails on the first.
C19_MergeToolRaises ==
    (op = "merge_json_objects" /\ pc = "done"
        /\ json1.wellformed /\ json2.wellformed
        /\ IsDict(json1.tree) /\ IsDict(json2.tree)) =>
        ret = Raise("ValueError", "Invalid JSON in object")

\* Two object texts with the key a, and the ValueError.
C19_RaisesWitness ==
    /\ op = "merge_json_objects" /\ pc = "done"
    /\ json1 = Source(Dict(<<"a">> :> Num(1)))
    /\ json2 = Source(Dict(<<"a">> :> Num(2)))
    /\ ret = Raise("ValueError", "Invalid JSON in object")

(***************************************************************************)
(* The password generator (password-generator/tools/password_tools.py).   *)
(*                                                                         *)
(* Every random choice of generate_password goes through the secrets      *)
(* module.  entropy is the stream of numbers that module draws, in the    *)
(* order the code asks for them: secrets.randbelow(n) reduces the next    *)
(* number modulo n, and secrets.choice(seq) is seq[randbelow(len(seq))].   *)
(* The stream repeats with period EntropyLen and its numbers lie in        *)
(* 0..MaxDraw, which reaches 'l' (11) and 'O' (14) in the letters and '0'  *)
(* and '1' in the digits.                                                  *)
(***************************************************************************)
MinLength == 8     \* shortest length generate_password accepts
MaxLength == 9     \* longest password asked for
EntropyLen == 2    \* period of the stream of random numbers
MaxDraw == 14      \* largest number in the stream

ascii_lowercase ==
    <<"a", "b", "c", "d", "e", "f", "g", "h", "i", "j", "k", "l", "m",
      "n", "o", "p", "q", "r", "s", "t", "u", "v", "w", "x", "y", "z">>
ascii_uppercase ==
    <<"A", "B", "C", "D", "E", "F", "G", "H", "I", "J", "K", "L", "M",
      "N", "O", "P", "Q", "R", "S", "T", "U", "V", "W", "X", "Y", "Z">>
digits == <<"0", "1", "2", "3", "4", "5", "6", "7", "8", "9">>
symbols ==
    <<"!", "@", "#", "$", "%", "^", "&", "*", "(", ")", "_", "+", "-",
      "=", "[", "]", "{", "}", "|", ";", ":", ",", ".", "<", ">", "?">>
ambiguous == <<"0", "O", "1", "l", "I">>

\* The k-th number the secrets module draws during one call (k from 1).
draw(rnd, k) == rnd[((k - 1) % Len(rnd)) + 1]
secrets_randbelow(n, r) == r % n
secrets_choice(seq, r) == seq[secrets_randbelow(Len(seq), r) + 1]

\* chars: the alphabets of the enabled types, in the order of the code.
enabled_chars(upper, lower, numbers, with_symbols) ==
    (IF lower THEN ascii_lowercase ELSE <<>>)
        \o (IF upper THEN ascii_uppercase ELSE <<>>)
        \o (IF numbers THEN digits ELSE <<>>)
        \o (IF with_symbols THEN symbols ELSE <<>>)

in_ambiguous(c) == \E i \in 1..Len(ambiguous) : ambiguous[i] = c

\* "".join(c for c in chars if c not in ambiguous)
without_ambiguous(chars) == SelectSeq(chars, LAMBDA c : ~in_ambiguous(c))

\* One character of every enabled type, each drawn from the type's whole
\* alphabet (lines 47-54 do not look at exclude_ambiguous).
required_chars(upper, lower, numbers, with_symbols, rnd) ==
    LET one(on, alphabet, sofar) ==
            IF on
            THEN Append(sofar, secrets_choice(alphabet, draw(rnd, Len(sofar) + 1)))
            ELSE sofar
    IN one(with_symbols, symbols,
           one(numbers, digits,
               one(upper, ascii_uppercase,
                   one(lower, ascii_lowercase, <<>>))))

\* password.extend(secrets.choice(chars) for _ in range(remaining_length))
fill(password, chars, remaining_length, rnd) ==
    password \o [i \in 1..remaining_length |->
                    secrets_choice(chars, draw(rnd, Len(password) + i))]

\* The Fisher-Yates loop: i runs from len - 1 down to 1 (positions from 0),
\* k is the number of the next draw.
RECURSIVE shuffle(_, _, _, _)
shuffle(password_list, i, k, rnd) ==
    IF i < 1
    THEN password_list
    ELSE LET j == secrets_randbelow(i + 1, draw(rnd, k))
             swapped == [password_list EXCEPT ![i + 1] = password_list[j + 1],
                                              ![j + 1] = password_list[i + 1]]
         IN shuffle(swapped, i - 1, k + 1, rnd)

generate_password(n, upper, lower, numbers, with_symbols, exclude, rnd) ==
    IF n < MinLength
    THEN Raise("ValueError", "Password length must be at least 8 characters")
    ELSE LET all == enabled_chars(upper, lower, numbers, with_symbols)
             chars == IF exclude THEN without_ambiguous(all) ELSE all
             required == required_chars(upper, lower, numbers, with_symbols, rnd)
             password == fill(required, chars, n - Len(required), rnd)
         IN IF all = <<>>
            THEN Raise("ValueError", "At least one character type must be included")
            ELSE Return(Str(shuffle(password, Len(password) - 1,
                                    Len(password) + 1, rnd)))

\* The tool of server.py hands generate_password a custom_chars keyword that
\* its signature does not have, so the call raises before the body runs,
\* whatever the arguments (custom_chars included) are.
generate_secure_password(n, upper, lower, numbers, with_symbols, exclude, rnd) ==
    Raise("TypeError",
          "generate_password() got an unexpected keyword argument 'custom_chars'")

PasswordOps == {"generate_password", "generate_secure_password"}

InitPassword ==
    /\ op \in PasswordOps
    /\ pc = "call"
    /\ length \in (MinLength - 1)..MaxLength
    /\ include_uppercase \in BOOLEAN
    /\ include_lowercase \in BOOLEAN
    /\ include_numbers \in BOOLEAN
    /\ include_symbols \in BOOLEAN
    /\ exclude_ambiguous \in BOOLEAN
    /\ entropy \in [1..EntropyLen -> 0..MaxDraw]
    /\ NoMerge /\ NoExtract /\ NoCompare /\ NoHabits
    /\ ret = NoOutcome

GeneratePassword ==
    /\ op = "generate_password" /\ pc = "call"
    /\ ret' = generate_password(length, include_uppercase, include_lowercase,
                                include_numbers, include_symbols,
                                exclude_ambiguous, entropy)
    /\ pc' = "done"
    /\ UNCHANGED <<op, mergeVars, extractVars, compareVars, passwordVars, habitVars>>

GenerateSecurePassword ==
    /\ op = "generate_secure_password" /\ pc = "call"
    /\ ret' = generate_secure_password(length, include_uppercase, include_lowercase,
                                       include_numbers, include_symbols,
                                       exclude_ambiguous, entropy)
    /\ pc' = "done"
    /\ UNCHANGED <<op, mergeVars, extractVars, compareVars, passwordVars, habitVars>>

NextPassword == GeneratePassword \/ GenerateSecurePassword
SpecPassword == InitPassword /\ [][NextPassword]_vars

(***************************************************************************)
(* Properties of the password generator.                                   *)
(***************************************************************************)
PasswordReturned ==
    /\ op = "generate_password" /\ pc = "done"
    /\ ret.exc = ""
AmbiguousIn(s) == {i \in 1..Len(s) : in_ambiguous(s[i])}
EnabledTypes ==
    {t \in {"upper", "lower", "numbers", "symbols"} :
        \/ t = "upper" /\ include_uppercase
        \/ t = "lower" /\ include_lowercase
        \/ t = "numbers" /\ include_numbers
        \/ t = "symbols" /\ include_symbols}

\* C20: with exclude_ambiguous true, a password returned by generate_password
\* contains none of the characters 0, O, 1, l, I, whatever types are enabled,
\* whatever the length (at least 8) and whatever the random choices.
C20_NoAmbiguousCharacters ==
    (PasswordReturned /\ exclude_ambiguous /\ length >= MinLength)
        => AmbiguousIn(ret.val.s) = {}

\* What the code guarantees instead: only the one required character of each
\* enabled letter or digit type can be ambiguous, so a returned password has
\* at most one ambiguous character per such type, and none when only symbols
\* are enabled.
C20_OnlyRequiredAmbiguous ==
    (PasswordReturned /\ exclude_ambiguous)
        => Cardinality(AmbiguousIn(ret.val.s))
              <= Cardinality(EnabledTypes \ {"symbols"})
C20_RequiredAmbiguousWitness ==
    /\ PasswordReturned /\ exclude_ambiguous
    /\ length = MinLength
    /\ include_lowercase /\ ~include_uppercase /\ ~include_numbers /\ ~include_symbols
    /\ Cardinality(AmbiguousIn(ret.val.s)) = 1
    /\ \E i \in 1..Len(ret.val.s) : ret.val.s[i] = "l"

(***************************************************************************)
(* Soundness and completeness of the differ for equality.                  *)
(***************************************************************************)
\* C24: with ignoreOrder false, diff(a, b) is the empty sequence if and only
\* if a and b are structurally equal: of the same kind, with the same keys
\* holding equal values, with the same array elements in the same order.
C24_EmptyIffStructurallyEqual ==
    (Compared /\ ~ignore_order)
        => (ret = Return(<<>>) <=> SameValue(json1.tree, json2.tree))

\* C24 with int and float taken as two kinds, as the code takes them: the
\* result is empty exactly when json.loads gives the same object tree.
C24_EmptyIffSameTree ==
    (Compared /\ ~ignore_order)
        => (ret = Return(<<>>) <=> json1.tree = json2.tree)

\* Both directions: equal nested documents with no entry, and documents that
\* differ only in the order of two array elements with entries.
C24_SameTreeWitness ==
    /\ Compared /\ ~ignore_order
    /\ \/ /\ json1.tree = Dict(<<"a">> :> List(<<Num(1)>>))
          /\ json2.tree = json1.tree
          /\ ret = Return(<<>>)
       \/ /\ json1.tree = List(<<Num(1), Num(2)>>)
          /\ json2.tree = List(<<Num(2), Num(1)>>)
          /\ ret.exc = "" /\ Len(ret.val) = 2

(***************************************************************************)
(* The habit tracker (src/python/habit-tracker/server.py).                 *)
(*                                                                         *)
(* The tracker is one object that lives as long as the server: habits and  *)
(* completions are its two lists, file is the data file save_data writes   *)
(* and load_data reads, today is the day datetime.now() falls on.  Every   *)
(* tool call is one action; habit_id and date are the arguments of the     *)
(* last call and ret is what it returned or raised.  A date is kept as the *)
(* text the caller wrote, for that is what the code stores, compares and   *)
(* sorts; datetime.strptime turns it into a calendar day when a streak is  *)
(* counted.  The timestamps created_at and logged_at, written once and     *)
(* never compared, are left out of the records.                            *)
(***************************************************************************)
MaxRecords == 4    \* most habits and completions stored, taken together
MaxDays == 1       \* days the clock advances past FirstDay

\* goal: int = 30
DefaultGoal == 30

\* A calendar day, and the day the clock shows when the server starts.
Day(y, m, d) == [year |-> y, month |-> m, day |-> d]
FirstDay == Day(2024, 2, 29)

is_leap(y) == y % 4 = 0 /\ (y % 100 # 0 \/ y % 400 = 0)
days_in_month(y, m) ==
    IF m = 2 THEN (IF is_leap(y) THEN 29 ELSE 28)
    ELSE IF m \in {4, 6, 9, 11} THEN 30 ELSE 31

RECURSIVE days_before_month(_, _)
days_before_month(y, m) ==
    IF m = 1 THEN 0 ELSE days_before_month(y, m - 1) + days_in_month(y, m - 1)

\* date.toordinal(): the number of the day, 1 being 0001-01-01.
toordinal(date_) ==
    LET y == date_.year - 1
    IN  y * 365 + (y \div 4) - (y \div 100) + (y \div 400)
            + days_before_month(date_.year, date_.month) + date_.day

\* today + timedelta(days=1)
tomorrow(date_) ==
    IF date_.day < days_in_month(date_.year, date_.month)
    THEN Day(date_.year, date_.month, date_.day + 1)
    ELSE IF date_.month < 12 THEN Day(date_.year, date_.month + 1, 1)
    ELSE Day(date_.year + 1, 1, 1)

\* '%02d' % n and '%04d' % n
zero_padded(n, width) ==
    LET text == NaturalText(n)
    IN  [i \in 1..(width - Len(text)) |-> "0"] \o text

\* date.strftime("%Y-%m-%d")
strftime(date_) ==
    zero_padded(date_.year, 4) \o <<"-">> \o zero_padded(date_.month, 2)
        \o <<"-">> \o zero_padded(date_.day, 2)

\* datetime.strptime(s, "%Y-%m-%d") for a text of digits and '-': a year of
\* four digits, a month and a day of one or two digits that name a month
\* and a day of some month, then the day must exist in that month.
strptime(s) ==
    LET parts == split(s, "-")
        digits_only(t) == t # <<>> /\ \A i \in 1..Len(t) : IsDigit(t[i])
        matches == /\ Len(parts) = 3
                   /\ \A i \in 1..3 : digits_only(parts[i])
                   /\ Len(parts[1]) = 4
                   /\ Len(parts[2]) \in {1, 2} /\ DecimalValue(parts[2]) \in 1..12
                   /\ Len(parts[3]) \in {1, 2} /\ DecimalValue(parts[3]) \in 1..31
        y == DecimalValue(parts[1])
        m == DecimalValue(parts[2])
        d == DecimalValue(parts[3])
    IN  IF ~matches
        THEN RaiseAbout("ValueError", "time data does not match format '%Y-%m-%d'", s)
        ELSE IF y < 1 THEN RaiseAbout("ValueError", "year is out of range", s)
        ELSE IF d > days_in_month(y, m)
             THEN RaiseAbout("ValueError", "day is out of range for month", s)
        ELSE Return(Day(y, m, d))

\* ord(c) for the characters of a date text.
ord(c) == IF c = "-" THEN 45 ELSE 48 + DigitValue(c)

\* s < t for two strs: by the first character that differs, a proper prefix
\* being the smaller.
RECURSIVE str_lt(_, _)
str_lt(s, t) ==
    IF t = <<>> THEN FALSE
    ELSE IF s = <<>> THEN TRUE
    ELSE IF s[1] # t[1] THEN ord(s[1]) < ord(t[1])
    ELSE str_lt(Tail(s), Tail(t))

\* sorted(texts, reverse=True): the greatest text first; equal texts are the
\* same str, so their order among themselves does not show.
RECURSIVE sorted_reverse(_)
sorted_reverse(texts) ==
    IF texts = <<>> THEN <<>>
    ELSE LET top == CHOOSE i \in 1..Len(texts) :
                        \A j \in 1..Len(texts) : ~str_lt(texts[i], texts[j])
         IN  <<texts[top]>>
                 \o sorted_reverse(SubSeq(texts, 1, top - 1)
                                       \o SubSeq(texts, top + 1, Len(texts)))

\* save_data: the document written is the two lists as they are; json.dump
\* and json.load give back the strs, ints, lists and dicts with str keys
\* that the lists are made of.
save_data_habits_only(hs, cs) == [exists |-> TRUE, habits |-> hs, completions |-> <<>>]
save_data(hs, cs) == [exists |-> TRUE, habits |-> hs, completions |-> cs]

\* HabitTracker(): two empty lists, then load_data, which reads the lists of
\* the file when there is one.
HabitTracker(f) ==
    IF f.exists THEN [habits |-> f.habits, completions |-> f.completions]
    ELSE [habits |-> <<>>, completions |-> <<>>]

\* next((h for h in tracker.habits if h["id"] == habit_id), None): the
\* position of the first habit with the id, 0 for None.
find_habit_any(hs, id) == IF hs = <<>> THEN 0 ELSE 1
find_habit(hs, id) ==
    IF \E i \in 1..Len(hs) : hs[i].id = id
    THEN CHOOSE i \in 1..Len(hs) :
             hs[i].id = id /\ \A j \in 1..(i - 1) : hs[j].id # id
    ELSE 0

\* any(c["habit_id"] == habit_id and c["date"] == log_date
\*     for c in tracker.completions)
already_logged_never(cs, id, log_date) == FALSE
already_logged(cs, id, log_date) ==
    \E i \in 1..Len(cs) : cs[i].habit_id = id /\ cs[i].date = log_date

\* [c["date"] for c in tracker.completions if c["habit_id"] == habit_id]
RECURSIVE dates_of(_, _)
dates_of(cs, id) ==
    IF cs = <<>> THEN <<>>
    ELSE (IF Head(cs).habit_id = id THEN <<Head(cs).date>> ELSE <<>>)
             \o dates_of(Tail(cs), id)

\* The streak loop that log_habit, list_habits and get_habit_stats each
\* carry: i runs over range(len(dates) - 1), from 1 here; a date that
\* strptime rejects ends the call with its ValueError.
RECURSIVE streak_loop(_, _, _)
streak_loop(dates, i, streak) ==
    IF i > Len(dates) - 1 THEN Return(streak)
    ELSE LET date1 == strptime(dates[i])
             date2 == strptime(dates[i + 1])
         IN  IF Raised(date1) THEN date1
             ELSE IF Raised(date2) THEN date2
             ELSE IF toordinal(date1.val) - toordinal(date2.val) = 1
                  THEN streak_loop(dates, i + 1, streak + 1)
                  ELSE Return(streak)

\* streak = 0; if dates: streak = 1; for ...
current_streak(dates) == IF dates = <<>> THEN Return(0) ELSE streak_loop(dates, 1, 1)

\* The best-streak loop of get_habit_stats, which has no break.
RECURSIVE best_loop(_, _, _, _)
best_loop(dates, i, temp_streak, best) ==
    IF i > Len(dates) - 1 THEN Return(best)
    ELSE LET date1 == strptime(dates[i])
             date2 == strptime(dates[i + 1])
         IN  IF Raised(date1) THEN date1
             ELSE IF Raised(date2) THEN date2
             ELSE IF toordinal(date1.val) - toordinal(date2.val) = 1
                  THEN best_loop(dates, i + 1, temp_streak + 1,
                                 Max(best, temp_streak + 1))
                  ELSE best_loop(dates, i + 1, 1, best)
best_streak(dates) == IF dates = <<>> THEN Return(0) ELSE best_loop(dates, 1, 1, 1)

\* What a call leaves behind: the two lists, the file, and the outcome.
After(hs, cs, f, outcome) ==
    [habits |-> hs, completions |-> cs, file |-> f, ret |-> outcome]

add_habit(hs, cs, f, name, goal) ==
    LET habit == [id |-> str_int(Len(hs) + 1), name |-> name,
                  frequency |-> "daily", goal |-> goal]
        stored == Append(hs, habit)
    IN  After(stored, cs, save_data(stored, cs),
              Return(Opaque("Habit Added", habit)))

log_habit(hs, cs, f, now, id, d) ==
    LET found == find_habit(hs, id)
        log_date == IF truthy(d) THEN d.s ELSE strftime(now)
        stored == Append(cs, [habit_id |-> id, date |-> log_date])
        streak == streak_loop(sorted_reverse(dates_of(stored, id)), 1, 1)
    IN  IF found = 0
        THEN After(hs, cs, f, Return(Opaque("Habit not found with ID", id)))
        ELSE IF already_logged(cs, id, log_date)
        THEN After(hs, cs, f, Return(Opaque("Already logged for", log_date)))
        ELSE After(hs, stored, save_data(hs, stored),
                   IF Raised(streak) THEN streak
                   ELSE Return(Opaque("Habit Logged",
                                      [name |-> hs[found].name, date |-> log_date,
                                       streak |-> streak.val, goal |-> hs[found].goal,
                                       reached |-> streak.val >= hs[found].goal])))

\* The loop of list_habits from the i-th habit on, rows being the lines
\* written so far.
RECURSIVE list_loop(_, _, _, _)
list_loop(hs, cs, i, rows) ==
    IF i > Len(hs) THEN Return(Opaque("Your Habits", rows))
    ELSE LET dates == sorted_reverse(dates_of(cs, hs[i].id))
             streak == current_streak(dates)
         IN  IF Raised(streak) THEN streak
             ELSE list_loop(hs, cs, i + 1,
                            Append(rows, [name |-> hs[i].name, id |-> hs[i].id,
                                          streak |-> streak.val, total |-> Len(dates),
                                          goal |-> hs[i].goal]))

list_habits(hs, cs, f) ==
    After(hs, cs, f,
          IF hs = <<>> THEN Return(Opaque("No habits tracked yet", <<>>))
          ELSE list_loop(hs, cs, 1, <<>>))

get_habit_stats(hs, cs, f, id) ==
    LET found == find_habit(hs, id)
        dates == sorted_reverse(dates_of(cs, id))
        current == current_streak(dates)
        best == best_streak(dates)
    IN  After(hs, cs, f,
              IF found = 0 THEN Return(Opaque("Habit not found with ID", id))
              ELSE IF Raised(current) THEN current
              ELSE IF Raised(best) THEN best
              ELSE Return(Opaque("Statistics for",
                                 [name |-> hs[found].name, id |-> id,
                                  streak |-> current.val, best |-> best.val,
                                  total |-> Len(dates), goal |-> hs[found].goal,
                                  reached |-> current.val >= hs[found].goal])))

\* The arguments the calls are given: a name, the default goal and one that
\* two days reach; the id of every stored habit and the next id, which no
\* habit has yet; no date, the two days around the end of February 2024 as
\* YYYY-MM-DD, the first of them without the zero, and a day February lacks.
Names == {<<"r", "u", "n">>}
Goals == {2, DefaultGoal}
HabitIds == {str_int(i) : i \in 1..(Len(habits) + 1)}
DateTexts ==
    {<<"2", "0", "2", "4", "-", "0", "2", "-", "2", "9">>,
     <<"2", "0", "2", "4", "-", "0", "3", "-", "0", "1">>,
     <<"2", "0", "2", "4", "-", "2", "-", "2", "9">>,
     <<"2", "0", "2", "4", "-", "0", "2", "-", "3", "0">>}
Dates == {None} \cup {Str(t) : t \in DateTexts}

InitHabits ==
    /\ op = "HabitTracker" /\ pc = "done"
    /\ file = NoFile
    /\ habits = HabitTracker(file).habits
    /\ completions = HabitTracker(file).completions
    /\ today = FirstDay
    /\ habit_id = <<>> /\ date = None
    /\ NoMerge /\ NoExtract /\ NoCompare /\ NoPassword
    /\ ret = NoOutcome

otherVars == <<pc, mergeVars, extractVars, compareVars, passwordVars>>

\* The state a call leaves, and the call it was.  No call is in progress
\* between two calls (pc = "done"): the tools run one at a time.
Called(tool, after, id, d) ==
    /\ op' = tool /\ habit_id' = id /\ date' = d
    /\ habits' = after.habits /\ completions' = after.completions
    /\ file' = after.file /\ ret' = after.ret
    /\ UNCHANGED <<today, otherVars>>

HasRoom == Len(habits) + Len(completions) < MaxRecords

AddHabit ==
    /\ pc = "done" /\ HasRoom
    /\ \E name \in Names, goal \in Goals :
          Called("add_habit", add_habit(habits, completions, file, name, goal),
                 <<>>, None)

LogHabit ==
    /\ pc = "done" /\ HasRoom
    /\ \E id \in HabitIds, d \in Dates :
          Called("log_habit", log_habit(habits, completions, file, today, id, d), id, d)

ListHabits ==
    /\ pc = "done"
    /\ Called("list_habits", list_habits(habits, completions, file), <<>>, None)

GetHabitStats ==
    /\ pc = "done"
    /\ \E id \in HabitIds :
          Called("get_habit_stats", get_habit_stats(habits, completions, file, id),
                 id, None)

\* The server is stopped and started again: a new tracker reads the file.
Restart ==
    /\ pc = "done"
    /\ op' = "HabitTracker" /\ habit_id' = <<>> /\ date' = None
    /\ habits' = HabitTracker(file).habits
    /\ completions' = HabitTracker(file).completions
    /\ ret' = NoOutcome
    /\ UNCHANGED <<file, today, otherVars>>

\* Midnight passes between two calls.
Midnight ==
    /\ pc = "done"
    /\ toordinal(today) - toordinal(FirstDay) < MaxDays
    /\ today' = tomorrow(today)
    /\ UNCHANGED <<op, habits, completions, file, habit_id, date, ret, otherVars>>

NextHabits ==
    AddHabit \/ LogHabit \/ ListHabits \/ GetHabitStats \/ Restart \/ Midnight
SpecHabits == InitHabits /\ [][NextHabits]_vars

(***************************************************************************)
(* Properties of the habit tracker.  A step of a tool is told from         *)
(* Midnight by the clock, from Restart by op.                              *)
(***************************************************************************)
\* The date a log_habit call with the date argument d logs on the day now.
LogDate(d, now) == IF truthy(d) THEN d.s ELSE strftime(now)
IsLogged(cs, id, text) ==
    \E i \in 1..Len(cs) : cs[i].habit_id = id /\ cs[i].date = text
OncePerPair(cs) ==
    \A i, j \in 1..Len(cs) :
        (cs[i].habit_id = cs[j].habit_id /\ cs[i].date = cs[j].date) => i = j
LogStep == op' = "log_habit" /\ today' = today
StatsStep == op' = "get_habit_stats" /\ today' = today
StoreUnchanged == UNCHANGED <<habits, completions, file>>
Notice(head, about) == Return(Opaque(head, about))

\* C21: after any sequence of calls the completions list holds at most one
\* entry per (habit_id, date) pair: a log_habit for a pair that is already
\* logged returns the already-logged notice and leaves habits, completions
\* and the saved file as they were.
C21_OncePerHabitAndDate ==
    [][/\ OncePerPair(completions')
       /\ (LogStep /\ IsLogged(completions, habit_id', LogDate(date', today)))
              => /\ ret' = Notice("Already logged for", LogDate(date', today))
                 /\ StoreUnchanged]_vars

\* A habit logged once for today by its date and then again with no date.
C21_Witness ==
    /\ op = "log_habit" /\ date = None
    /\ ret = Notice("Already logged for", strftime(today))
    /\ Len(completions) = 1
    /\ completions[1] = [habit_id |-> <<"1">>, date |-> strftime(today)]

HasHabit(hs, id) == \E i \in 1..Len(hs) : hs[i].id = id

\* C22: log_habit and get_habit_stats called with a habit_id that matches no
\* stored habit return the not-found message and leave habits, completions
\* and the saved file as they were, so that no completion is ever stored
\* for a habit_id that does not exist when it is logged.
C22_UnknownHabitNotFound ==
    [][/\ ((LogStep \/ StatsStep) /\ ~HasHabit(habits, habit_id'))
              => /\ ret' = Notice("Habit not found with ID", habit_id')
                 /\ StoreUnchanged
       /\ \A i \in 1..Len(completions') : HasHabit(habits', completions'[i].habit_id)
      ]_vars

\* One habit and one completion are stored and habit 2 is logged with a date.
C22_Witness ==
    /\ op = "log_habit" /\ habit_id = <<"2">> /\ date # None
    /\ ret = Notice("Habit not found with ID", <<"2">>)
    /\ Len(habits) = 1 /\ Len(completions) = 1

\* The same for get_habit_stats, before any habit is added.
C22_WitnessStats ==
    /\ op = "get_habit_stats" /\ habit_id = <<"1">>
    /\ ret = Notice("Habit not found with ID", <<"1">>)
    /\ habits = <<>>

\* The calendar days a habit is logged on, the most recent of them, and the
\* length of the run of consecutive days that ends there.
IsDay(text) == Returned(strptime(text))
DaysOf(cs, id) ==
    {toordinal(strptime(cs[i].date).val) :
        i \in {j \in 1..Len(cs) : cs[j].habit_id = id /\ IsDay(cs[j].date)}}
MostRecent(days) == CHOOSE top \in days : \A other \in days : other <= top
RunEndingAt(days, top) ==
    CHOOSE n \in 1..Cardinality(days) :
        /\ \A k \in 0..(n - 1) : (top - k) \in days
        /\ (top - n) \notin days
Streak(cs, id) ==
    IF DaysOf(cs, id) = {} THEN 0
    ELSE RunEndingAt(DaysOf(cs, id), MostRecent(DaysOf(cs, id)))

\* The streaks a returned report shows, each with the habit it is shown for.
Reported ==
    IF ~Returned(ret) THEN {}
    ELSE IF op \in {"log_habit", "get_habit_stats"}
              /\ ret.val.s \in {<<"Habit Logged">>, <<"Statistics for">>}
         THEN {[id |-> habit_id, streak |-> ret.val.items[1].streak]}
    ELSE IF op = "list_habits" /\ ret.val.s = <<"Your Habits">>
         THEN {[id |-> ret.val.items[1][i].id, streak |-> ret.val.items[1][i].streak] :
                  i \in 1..Len(ret.val.items[1])}
    ELSE {}

\* The date texts strftime writes: YYYY-MM-DD with the zeros.
IsPadded(text) == IsDay(text) /\ strftime(strptime(text).val) = text
AllPadded(cs, id) ==
    \A i \in 1..Len(cs) : cs[i].habit_id = id => IsPadded(cs[i].date)

\* C23: the current streak that log_habit, list_habits and get_habit_stats
\* report for a habit is one function of the stored completions: 0 when the
\* habit has none, otherwise the length of the maximal run of consecutive
\* calendar days that ends at the most recent logged date of the habit.
C23_StreakIsRunOfDays ==
    \A r \in Reported : r.streak = Streak(completions, r.id)

\* C23 for the habits whose dates are all stored as YYYY-MM-DD with the
\* zeros, for which the order of the texts is the order of the days.
C23_StreakOfPaddedDates ==
    \A r \in Reported : AllPadded(completions, r.id) => r.streak = Streak(completions, r.id)

\* A run of two days over the end of February, logged in either order and
\* reported by each of the three tools.
C23_PaddedWitness ==
    /\ Reported = {[id |-> <<"1">>, streak |-> 2]}
    /\ AllPadded(completions, <<"1">>)
    /\ Len(completions) = 2
    /\ completions[1].date = <<"2", "0", "2", "4", "-", "0", "3", "-", "0", "1">>
    /\ op = "list_habits"

\* C23 for the habits whose stored dates all name a day, zeros or not.
AllDays(cs, id) == \A i \in 1..Len(cs) : cs[i].habit_id = id => IsDay(cs[i].date)
C23_StreakOfDays ==
    \A r \in Reported : AllDays(completions, r.id) => r.streak = Streak(completions, r.id)

\* The two lists of the tracker, as one value.
InMemory == [habits |-> habits, completions |-> completions]

\* C25: after every add_habit or log_habit call that returns, the habits and
\* completions written to the data file equal those in memory, so that a
\* tracker reloaded from the file is in the same state.
C25_FileEqualsMemory ==
    (op \in {"add_habit", "log_habit"} /\ Returned(ret)) => HabitTracker(file) = InMemory

\* A completion has been logged and saved after two habits were added.
C25_Witness ==
    /\ op = "log_habit" /\ Returned(ret) /\ ret.val.s = <<"Habit Logged">>
    /\ Len(habits) = 2 /\ Len(completions) = 1
    /\ file.exists /\ file.habits = habits /\ file.completions = completions

\* The reload itself: a tracker started again holds what was stored before.
C25_WitnessReloaded ==
    /\ op = "HabitTracker" /\ file.exists
    /\ Len(habits) = 1 /\ Len(completions) = 2
    /\ HabitTracker(file) = InMemory

\* C26: a log_habit call that fails instead of returning a confirmation, as
\* for a date argument that is no valid YYYY-MM-DD date, leaves the stored
\* completions and the saved file as they were, so that later list_habits
\* and get_habit_stats calls still succeed.
C26_FailedLogStoresNothing ==
    [][/\ (LogStep /\ Raised(ret')) => StoreUnchanged
       /\ op' \in {"list_habits", "get_habit_stats"} => ~Raised(ret')]_vars

\* What the code does: a log_habit call that raises has appended the
\* completion and saved the file before the streak loop met the date.
C26_FailedLogIsStored ==
    [][(LogStep /\ Raised(ret'))
          => /\ completions' = Append(completions,
                                      [habit_id |-> habit_id',
                                       date |-> LogDate(date', today)])
             /\ file' = save_data(habits, completions')
             /\ habits' = habits]_vars

\* A log_habit that raised on 30 February with the date stored and saved,
\* and a list_habits that raises on the stored date afterwards.
C26_StoredWitness ==
    /\ op = "log_habit" /\ ret.exc = "ValueError"
    /\ date = Str(<<"2", "0", "2", "4", "-", "0", "2", "-", "3", "0">>)
    /\ Len(completions) = 2 /\ completions[2].date = date.s
    /\ file.completions = completions
C26_ListRaisesWitness ==
    /\ op = "list_habits" /\ ret.exc = "ValueError"
    /\ \E i \in 1..Len(completions) : ~IsDay(completions[i].date)

====
